---- MODULE Spec2Model ----
(***************************************************************************)
(* Booking lifecycle and notification core of the air-ambulance backend    *)
(* (src/routes/bookings.py): the booking store, the request handlers       *)
(* create_booking, update_booking, mark_booking_emergency, the two         *)
(* aggregate reads, the recipient computation and the live connection      *)
(* registry.                                                               *)
(*                                                                         *)
(* Encoding of Python values:                                              *)
(*   None                -> Null (the empty sequence)                      *)
(*   an Optional value v -> <<v>>                                          *)
(*   an ObjectId string  -> a positive integer; 0 stands for every string  *)
(*                          ObjectId.is_valid rejects                      *)
(*   a float cost        -> an integer (every cost the handlers compute    *)
(*                          is integral: the multipliers are kept in       *)
(*                          tenths)                                        *)
(*   datetime.utcnow()   -> a millisecond tick, the precision the store    *)
(*                          keeps                                          *)
(***************************************************************************)
EXTENDS Integers, Sequences, FiniteSets, TLC

VARIABLES
    users,               \* the users collection, in natural (insertion) order
    bookings,            \* the bookings collection: sequence, index = _id
    clock,               \* last value datetime.utcnow() returned
    nreq,                \* number of HTTP requests handled so far
    active_connections,  \* ConnectionManager.active_connections
    sock,                \* per websocket: "unused", "open" or "closed" (send raises)
    received,            \* per websocket: the message types delivered to it
    completed_once,      \* history: ids of the bookings whose status has been "completed"
    last,                \* the last HTTP request: what was asked, answered, emitted
    call                 \* a direct call of a helper function: arguments, value returned

vars == <<users, bookings, clock, nreq, active_connections, sock, received,
          completed_once, last, call>>

(***************************************************************************)
(* Bounds of the exploration.                                              *)
(***************************************************************************)
MaxRequests == 3
MaxBookings == 2

Null == <<>>
Some(v) == <<v>>

(***************************************************************************)
(* Users and patients the store holds.                                     *)
(***************************************************************************)
InitialUsers ==
    << [id |-> "u_sa",    role |-> "superadmin",          is_active |-> TRUE],
       [id |-> "u_disp",  role |-> "dispatcher",          is_active |-> TRUE],
       [id |-> "u_staff", role |-> "hospital_staff",      is_active |-> TRUE],
       [id |-> "u_doc",   role |-> "doctor",              is_active |-> TRUE],
       [id |-> "u_para",  role |-> "paramedic",           is_active |-> FALSE],
       [id |-> "u_coord", role |-> "airline_coordinator", is_active |-> TRUE] >>

UserById(uid) == CHOOSE i \in 1..Len(users) : users[i].id = uid

\* the role claim of the token presented, where there is one, in place of the
\* stored role
RoleOfToken(uid) ==
    IF call.fn = "login" /\ call.token.sub = <<uid>> THEN call.token.role
    ELSE users[UserById(uid)].role

\* role=user_data["role"]: the role of the stored user
RoleOf(uid) == users[UserById(uid)].role

\* patients collection: "p1" is stored, "zz" is not a well-formed ObjectId.
StoredPatients == {"p1"}
MalformedPatientIds == {"zz"}
PatientFullName(pid) == "Asha Rao"

\* the validation left out
ObjectIdIsValidAlways(id) == TRUE

ObjectIdIsValid(id) == id > 0

\* find_one({}): the filter left out, the first document of the collection
find_one_unfiltered(collection, id) ==
    IF collection # <<>> THEN Some(collection[1]) ELSE Null

\* collection.find_one({"_id": ObjectId(id)}): the document, or None
find_one(collection, id) ==
    IF id \in DOMAIN collection THEN Some(collection[id]) ELSE Null

(***************************************************************************)
(* Authentication (routes/auth.py, utils/auth.py). A bearer token is known *)
(* by what jwt.decode makes of it: signature is "none" when the request    *)
(* has no Authorization header, "valid", "forged" or "expired" otherwise;  *)
(* sub is the subject of its payload, Null when it has none. A user's      *)
(* email is the user's id here.                                            *)
(***************************************************************************)
\* the signature and the expiry left unchecked
verify_token_unchecked(token) == token.sub

\* jwt.decode raises JWTError for a forged or expired token
verify_token(token) ==
    IF token.signature # "valid" THEN Null ELSE token.sub

\* [resp, user]: resp is 200 and user the id of the user found, or resp is
\* the status of the HTTPException raised
get_current_user(token) ==
    IF token.signature = "none"
    THEN [resp |-> 401, user |-> ""]                 \* OAuth2PasswordBearer
    ELSE LET token_data == verify_token(token)
         IN  IF token_data = Null
             THEN [resp |-> 401, user |-> ""]
             ELSE IF ~\E i \in DOMAIN users : users[i].id = token_data[1]
             THEN [resp |-> 401, user |-> ""]
             ELSE [resp |-> 200, user |-> token_data[1]]

get_current_active_user(token) ==
    LET found == get_current_user(token)
    IN  IF found.resp # 200 THEN found
        ELSE IF ~\E i \in DOMAIN users : users[i].id = found.user /\ users[i].is_active
        THEN [resp |-> 400, user |-> ""]
        ELSE found

(***************************************************************************)
(* Cost estimator.                                                         *)
(***************************************************************************)
BaseEstimate == 5000
BaseRate == 100
EquipmentUnitCost == 500
MinFlightDuration == 30
MaxFlightDuration == 180

\* dict.get(key, default)
get(dict, key, default) == IF key \in DOMAIN dict THEN dict[key] ELSE default

\* the multiplier of critical for every urgency the table does not hold
urgency_multiplier_defaulting_high(urgency) ==
    CASE urgency = "critical" -> 15
      [] urgency = "urgent"   -> 12
      [] urgency = "stable"   -> 10
      [] OTHER                -> 15

\* urgency_multiplier.get(urgency, 1.0), in tenths
urgency_multiplier(urgency) ==
    CASE urgency = "critical" -> 15
      [] urgency = "urgent"   -> 12
      [] urgency = "stable"   -> 10
      [] OTHER                -> 10

calculate_estimated_cost(booking_data) ==
    (BaseEstimate * urgency_multiplier(get(booking_data, "urgency", "stable"))) \div 10
        + Len(get(booking_data, "required_equipment", <<>>)) * EquipmentUnitCost

calculate_actual_cost(booking_data, flight_duration) ==
    (BaseRate * flight_duration
        * urgency_multiplier(get(booking_data, "urgency", "stable"))) \div 10
        + Len(get(booking_data, "required_equipment", <<>>)) * EquipmentUnitCost

\* random.randint(30, 180): the outcomes explored are both ends and the middle
calculate_flight_duration_from_zero ==
    {0, MaxFlightDuration \div 2, MaxFlightDuration}

calculate_flight_duration ==
    {MinFlightDuration, (MinFlightDuration + MaxFlightDuration) \div 2, MaxFlightDuration}

(***************************************************************************)
(* Notification fan-out.                                                   *)
(***************************************************************************)
DispatchRoles == {"dispatcher", "superadmin", "airline_coordinator"}
MedicalRoles == {"doctor", "paramedic"}

\* User(**user): the User of a document of the users collection, known by
\* its id
UserOf(document) == document.id

\* [User(**user) for user in users_collection.find(
\*      {"role": {"$in": roles}, "is_active": True})]
FindActiveIds(roles) ==
    LET hit == SelectSeq(users, LAMBDA u : u.role \in roles /\ u.is_active)
    IN  [i \in 1..Len(hit) |-> UserOf(hit[i])]

\* the loop of lines 113-118 left out
NotDeduplicated(list, seen) == list

RECURSIVE Unique(_, _)
Unique(list, seen) ==
    IF list = <<>> THEN <<>>
    ELSE IF Head(list) \in seen THEN Unique(Tail(list), seen)
    ELSE <<Head(list)>> \o Unique(Tail(list), seen \cup {Head(list)})

\* status changes announced to the dispatch roles too
DispatchKindsWithStatusChange == {"created", "updated", "emergency", "status_change"}

\* the kinds of event the dispatch roles are told of (line 99)
DispatchKinds == {"created", "updated", "emergency"}

\* the failure of a lookup passed on to the caller instead of caught
get_notification_recipients_raising(booking, current_user, action, lookupFails) ==
    LET wantDispatch == action \in DispatchKinds
        wantMedical == action = "emergency" \/ get(booking, "urgency", "") = "critical"
    IN  IF lookupFails /\ (wantDispatch \/ wantMedical)
        THEN [raised |-> TRUE, recipients |-> <<>>]
        ELSE [raised |-> FALSE,
              recipients |->
                  Unique(<<current_user>>
                         \o (IF wantDispatch THEN FindActiveIds(DispatchRoles) ELSE <<>>)
                         \o (IF wantMedical THEN FindActiveIds(MedicalRoles) ELSE <<>>),
                         {})]

\* [raised, recipients]: raised is TRUE when an exception leaves the function
get_notification_recipients(booking, current_user, action, lookupFails) ==
    LET wantDispatch == action \in DispatchKinds
        wantMedical == action = "emergency" \/ get(booking, "urgency", "") = "critical"
    IN  IF lookupFails /\ (wantDispatch \/ wantMedical)
        THEN [raised |-> FALSE, recipients |-> <<current_user>>]
        ELSE [raised |-> FALSE,
              recipients |->
                  Unique(<<current_user>>
                         \o (IF wantDispatch THEN FindActiveIds(DispatchRoles) ELSE <<>>)
                         \o (IF wantMedical THEN FindActiveIds(MedicalRoles) ELSE <<>>),
                         {})]

\* NotificationService.send_booking_notification / send_emergency_alert:
\* a failing delivery is logged inside the service and not raised.
send_notification(deliveryFails) ==
    [raised |-> FALSE, delivered |-> ~deliveryFails]

\* one call of the service; from/to: the statuses a status_change message names
BookingNotification(kind, ntype, recipients, id, from, to, deliveryFails) ==
    [svc |-> "booking", kind |-> kind, type |-> ntype, recipients |-> recipients,
     booking_id |-> id, from |-> from, to |-> to,
     delivered |-> send_notification(deliveryFails).delivered]

EmergencyAlert(kind, id, deliveryFails) ==
    [svc |-> "emergency", kind |-> kind, type |-> "emergency", recipients |-> <<>>,
     booking_id |-> id, from |-> "", to |-> "",
     delivered |-> send_notification(deliveryFails).delivered]

(***************************************************************************)
(* Live connection registry.                                               *)
(***************************************************************************)
AllChannels == {"w1", "w2"}

\* the last connection removed, whichever it is
disconnect_last(conns, websocket) ==
    SubSeq(conns, 1, Len(conns) - 1)

\* ConnectionManager.disconnect
disconnect(conns, websocket) ==
    IF \E i \in 1..Len(conns) : conns[i] = websocket
    THEN LET i == CHOOSE j \in 1..Len(conns) :
                      conns[j] = websocket /\ \A k \in 1..(j - 1) : conns[k] # websocket
         IN  [k \in 1..(Len(conns) - 1) |-> IF k < i THEN conns[k] ELSE conns[k + 1]]
    ELSE conns

RECURSIVE DisconnectAll(_, _)
DisconnectAll(conns, gone) ==
    IF gone = <<>> THEN conns
    ELSE DisconnectAll(disconnect(conns, Head(gone)), Tail(gone))

\* the loop left at the first send that raises, nothing removed
broadcast_aborting(conns, inbox, message) ==
    LET bad == {i \in 1..Len(conns) : sock[conns[i]] # "open"}
    IN  [conns |-> conns,
         inbox |-> [c \in DOMAIN inbox |->
                       IF \E i \in 1..Len(conns) :
                              conns[i] = c /\ \A j \in bad : i < j
                       THEN Append(inbox[c], message.type)
                       ELSE inbox[c]]]

\* ConnectionManager.broadcast, run without interleaving:
\* [conns: the registry afterwards, inbox: the inboxes afterwards]
broadcast(conns, inbox, message) ==
    LET disconnected_connections == SelectSeq(conns, LAMBDA c : sock[c] # "open")
    IN  [conns |-> DisconnectAll(conns, disconnected_connections),
         inbox |-> [c \in DOMAIN inbox |->
                       IF sock[c] = "open" /\ \E i \in 1..Len(conns) : conns[i] = c
                       THEN Append(inbox[c], message.type)
                       ELSE inbox[c]]]

\* the payload without its urgency key
BroadcastMessageWithoutUrgency(type, id, status, urgency, patient_name) ==
    [type |-> type, booking_id |-> id, status |-> status, urgency |-> Null,
     patient_name |-> patient_name]

BroadcastMessage(type, id, status, urgency, patient_name) ==
    [type |-> type, booking_id |-> id, status |-> status, urgency |-> urgency,
     patient_name |-> patient_name]

(***************************************************************************)
(* preferred_time: a time of day <<hour, minute, second, microsecond>>; its  *)
(* text is kept as the sequence of the fields it prints.                   *)
(***************************************************************************)
\* datetime.time.isoformat(): "HH:MM:SS", or "HH:MM:SS.ffffff" when the
\* microsecond is not 0
isoformat(t) == IF t[4] = 0 THEN <<t[1], t[2], t[3]>> ELSE t

\* datetime.strptime(text, fmt).time(): fmt '%H:%M:%S' reads exactly three
\* fields, '%H:%M' exactly two; anything left over is a ValueError
strptime(text, nfields) ==
    IF Len(text) = nfields
    THEN [raised |-> FALSE,
          value |-> <<text[1], text[2], IF nfields = 3 THEN text[3] ELSE 0, 0>>]
    ELSE [raised |-> TRUE, value |-> <<0, 0, 0, 0>>]

\* the conversion of a stored booking for the response (lines 174-178,
\* 371-375): TRUE when both strptime attempts raise
ResponseTimeRaises(booking_dict) ==
    /\ booking_dict.preferred_time # Null
    /\ strptime(booking_dict.preferred_time[1], 3).raised
    /\ strptime(booking_dict.preferred_time[1], 2).raised

(***************************************************************************)
(* Requests and responses.                                                 *)
(***************************************************************************)
\* a BookingUpdate body is a function: its domain is the set of fields the
\* request carries, a value is Null for an explicit null and <<v>> otherwise
NoBody == <<>>

NoResult == [count |-> 0, total_revenue |-> 0, total_flight_time |-> 0,
             average_flight_time |-> 0, average_revenue_per_booking |-> 0,
             items |-> <<>>]

NoId == -1

\* no helper has been called directly
NoCall == [fn |-> "none"]

\* what a handler emits, in the order of its calls: each handler makes its
\* notification calls before its broadcast (lines 180-204, 377-403, 457-468)
Emitted(notifs, bcasts) ==
    [i \in 1..Len(notifs) |-> notifs[i].kind] \o [i \in 1..Len(bcasts) |-> bcasts[i].type]

Response(op, actor, id, resp, body, notifs, bcasts, result) ==
    [op |-> op, actor |-> actor, id |-> id, resp |-> resp, body |-> body,
     notifs |-> notifs, bcasts |-> bcasts, events |-> Emitted(notifs, bcasts),
     result |-> result]

\* what a handler leaves behind: the status code, the store, what it emitted
Outcome(resp, store, notifs, bcasts) ==
    [resp |-> resp, store |-> store, notifs |-> notifs, bcasts |-> bcasts]

(***************************************************************************)
(* POST /api/bookings                                                      *)
(***************************************************************************)
CreateRolesWithDoctor == {"superadmin", "dispatcher", "hospital_staff", "doctor"}

CreateRoles == {"superadmin", "dispatcher", "hospital_staff"}

ResolvePatientName(patient_id) ==
    IF patient_id # Null /\ patient_id[1] \in StoredPatients
    THEN PatientFullName(patient_id[1])
    ELSE "Unknown Patient"

BookingFields ==
    {"patient_id", "urgency", "required_equipment", "preferred_time", "status",
     "assigned_crew_ids", "assigned_aircraft_id", "actual_cost", "flight_duration",
     "created_at", "updated_at", "created_by", "estimated_cost"}

\* the body's own values kept for the fields it carries
NewBookingKeepingBody(input, current_user, now) ==
    LET booking_dict ==
            [f \in BookingFields |->
                IF f \in DOMAIN input /\ f # "preferred_time" THEN input[f]
                ELSE CASE f = "status"               -> "pending"
                       [] f = "assigned_crew_ids"    -> <<>>
                       [] f = "created_at"           -> now
                       [] f = "updated_at"           -> now
                       [] f = "created_by"           -> current_user
                       [] f = "estimated_cost"       -> 0
                       [] OTHER                      -> Null]
    IN  [booking_dict EXCEPT !.estimated_cost = calculate_estimated_cost(booking_dict)]

\* created_by left empty
NewBookingUnowned(input, current_user, now) ==
    LET booking_dict ==
            [f \in BookingFields |->
                CASE f = "preferred_time"       ->
                         IF input.preferred_time # Null
                         THEN Some(isoformat(input.preferred_time[1])) ELSE Null
                  [] f = "status"               -> "pending"
                  [] f = "assigned_crew_ids"    -> <<>>
                  [] f = "assigned_aircraft_id" -> Null
                  [] f = "actual_cost"          -> Null
                  [] f = "flight_duration"      -> Null
                  [] f = "created_at"           -> now
                  [] f = "updated_at"           -> now
                  [] f = "created_by"           -> ""
                  [] f = "estimated_cost"       -> 0
                  [] OTHER                      -> input[f]]
    IN  [booking_dict EXCEPT !.estimated_cost = calculate_estimated_cost(booking_dict)]

\* booking_dict as inserted (lines 141-165): the request body, then the fields
\* the handler sets whatever the body carried for them
NewBooking(input, current_user, now) ==
    LET booking_dict ==
            [f \in BookingFields |->
                CASE f = "preferred_time"       ->
                         IF input.preferred_time # Null
                         THEN Some(isoformat(input.preferred_time[1])) ELSE Null
                  [] f = "status"               -> "pending"
                  [] f = "assigned_crew_ids"    -> <<>>
                  [] f = "assigned_aircraft_id" -> Null
                  [] f = "actual_cost"          -> Null
                  [] f = "flight_duration"      -> Null
                  [] f = "created_at"           -> now
                  [] f = "updated_at"           -> now
                  [] f = "created_by"           -> current_user
                  [] f = "estimated_cost"       -> 0
                  [] OTHER                      -> input[f]]
    IN  [booking_dict EXCEPT !.estimated_cost = calculate_estimated_cost(booking_dict)]

create_booking(current_user, input, env, now) ==
    IF RoleOf(current_user) \notin CreateRoles
    THEN Outcome(403, bookings, <<>>, <<>>)
    ELSE IF input.patient_id # Null /\ input.patient_id[1] \in MalformedPatientIds
    THEN Outcome(500, bookings, <<>>, <<>>)          \* ObjectId(...) raises
    ELSE
    LET patient_name == ResolvePatientName(input.patient_id)
        booking_dict == NewBooking(input, current_user, now)
        store == Append(bookings, booking_dict)
        booking_id == Len(store)
        rcp == get_notification_recipients(booking_dict, current_user, "created",
                                           env.lookupFails)
        created == BookingNotification("created", "info", rcp.recipients, booking_id,
                                       "", "pending", env.deliveryFails)
        alert == EmergencyAlert("critical_patient", booking_id, env.deliveryFails)
        notifs == IF booking_dict.urgency = "critical" THEN <<created, alert>>
                  ELSE <<created>>
        message == BroadcastMessage("booking_created", booking_id, Null,
                                    Some(booking_dict.urgency), patient_name)
    IN  IF ResponseTimeRaises(booking_dict)
        THEN Outcome(500, store, <<>>, <<>>)
        ELSE IF rcp.raised \/ send_notification(env.deliveryFails).raised
        THEN Outcome(500, store, <<>>, <<>>)
        ELSE Outcome(200, store, notifs, <<message>>)

(***************************************************************************)
(* PUT /api/bookings/{booking_id}                                          *)
(***************************************************************************)
UpdateRolesWithStaff == {"superadmin", "dispatcher", "hospital_staff"}

UpdateRoles == {"superadmin", "dispatcher"}

\* "if v" in place of "if v is not None": an empty list is dropped too
DropFalsy(booking_update) ==
    [f \in {g \in DOMAIN booking_update :
                /\ booking_update[g] # Null
                /\ ~(g \in {"assigned_crew_ids", "required_equipment"}
                      /\ booking_update[g][1] = <<>>)} |->
        booking_update[f][1]]

\* {k: v for k, v in booking_update.dict(exclude_unset=True).items()
\*  if v is not None}
DropNone(booking_update) ==
    [f \in {g \in DOMAIN booking_update : booking_update[g] # Null} |->
        booking_update[f][1]]

\* the id looked at before the role
RefusalIdFirst(allowed_roles, current_user, booking_id) ==
    IF ~ObjectIdIsValid(booking_id) THEN 400
    ELSE IF find_one(bookings, booking_id) = Null THEN 404
    ELSE IF RoleOf(current_user) \notin allowed_roles THEN 403
    ELSE 200

\* the checks that open update_booking (lines 307-323) and
\* mark_booking_emergency (lines 419-432), in their order: the status of the
\* HTTPException raised, 200 when none is
Refusal(allowed_roles, current_user, booking_id) ==
    IF RoleOf(current_user) \notin allowed_roles THEN 403
    ELSE IF ~ObjectIdIsValid(booking_id) THEN 400
    ELSE IF find_one(bookings, booking_id) = Null THEN 404
    ELSE 200

StatusChangedWhenGiven(new_status, old_status) ==
    new_status # Null

\* new_status and new_status != old_status (line 335); new_status is Null
\* when update_data has no status
StatusChanged(new_status, old_status) ==
    new_status # Null /\ new_status[1] # old_status

\* "info" if new_status != "cancelled" else "warning" (line 385)
Severity(new_status) ==
    IF new_status # Some("cancelled") THEN "info" ELSE "warning"

\* the actual cost of a completion left to the body
UpdateDataWithoutCost(booking_update, current_booking, now, randint) ==
    LET update_data == DropNone(booking_update)
        completed == "status" \in DOMAIN update_data /\ update_data.status = "completed"
        with_duration ==
            IF completed /\ "flight_duration" \notin DOMAIN update_data
            THEN ("flight_duration" :> Some(randint)) @@ update_data
            ELSE update_data
        with_time ==
            IF "preferred_time" \in DOMAIN with_duration
            THEN ("preferred_time" :> Some(isoformat(with_duration.preferred_time[1])))
                 @@ with_duration
            ELSE with_duration
    IN  ("updated_at" :> now) @@ with_time

\* lines 337-354: what $set receives
UpdateData(booking_update, current_booking, now, randint) ==
    LET update_data == DropNone(booking_update)
        completed == "status" \in DOMAIN update_data /\ update_data.status = "completed"
        with_duration ==
            IF completed /\ "flight_duration" \notin DOMAIN update_data
            THEN ("flight_duration" :> Some(randint)) @@ update_data
            ELSE update_data
        with_cost ==
            IF completed /\ "actual_cost" \notin DOMAIN update_data
            THEN ("actual_cost" :>
                      Some(calculate_actual_cost(current_booking,
                                                 with_duration.flight_duration[1])))
                 @@ with_duration
            ELSE with_duration
        with_time ==
            IF "preferred_time" \in DOMAIN with_cost
            THEN ("preferred_time" :> Some(isoformat(with_cost.preferred_time[1])))
                 @@ with_cost
            ELSE with_cost
    IN  ("updated_at" :> now) @@ with_time

\* $set that leaves updated_at as it was
SetFieldsKeepingTime(document, update_data) ==
    [f \in DOMAIN document \cup DOMAIN update_data |->
        IF f \in DOMAIN update_data /\ f # "updated_at"
        THEN update_data[f] ELSE document[f]]

\* update_one(filter, {"$set": update_data}) on the matched document
SetFields(document, update_data) ==
    [f \in DOMAIN document \cup DOMAIN update_data |->
        IF f \in DOMAIN update_data THEN update_data[f] ELSE document[f]]

update_booking(current_user, booking_id, booking_update, env, now, randint) ==
    IF Refusal(UpdateRoles, current_user, booking_id) # 200
    THEN Outcome(Refusal(UpdateRoles, current_user, booking_id), bookings, <<>>, <<>>)
    ELSE
    LET current_booking == find_one(bookings, booking_id)[1]
        patient_name == ResolvePatientName(current_booking.patient_id)
        plain == DropNone(booking_update)
        old_status == current_booking.status
        new_status == IF "status" \in DOMAIN plain THEN Some(plain.status) ELSE Null
        status_changed == StatusChanged(new_status, old_status)
        update_data == UpdateData(booking_update, current_booking, now, randint)
        booking_dict == SetFields(current_booking, update_data)
        modified_count == IF booking_dict = current_booking THEN 0 ELSE 1
        store == [bookings EXCEPT ![booking_id] = booking_dict]
        rcp == get_notification_recipients(booking_dict, current_user, "status_change",
                                           env.lookupFails)
        changed == BookingNotification("status_change", Severity(new_status),
                                       rcp.recipients, booking_id, old_status,
                                       IF new_status # Null THEN new_status[1] ELSE "",
                                       env.deliveryFails)
        done == BookingNotification("completed", "success", rcp.recipients, booking_id,
                                    "", "completed", env.deliveryFails)
        notifs == IF ~status_changed THEN <<>>
                  ELSE IF new_status = Some("completed") THEN <<changed, done>>
                  ELSE <<changed>>
        message == BroadcastMessage("booking_updated", booking_id,
                                    IF status_changed THEN new_status ELSE Null,
                                    Null, patient_name)
    IN  IF modified_count = 0
        THEN Outcome(404, bookings, <<>>, <<>>)
        ELSE IF ResponseTimeRaises(booking_dict)
        THEN Outcome(500, store, <<>>, <<>>)
        ELSE IF status_changed
                /\ (rcp.raised \/ send_notification(env.deliveryFails).raised)
        THEN Outcome(500, store, <<>>, <<>>)
        ELSE Outcome(200, store, notifs, <<message>>)

(***************************************************************************)
(* PUT /api/bookings/{booking_id}/emergency                                *)
(***************************************************************************)
EmergencyRolesWithStaff == {"superadmin", "dispatcher", "doctor", "hospital_staff"}

EmergencyRoles == {"superadmin", "dispatcher", "doctor"}

\* the estimate set too, as for a critical booking without equipment
EmergencySetWithEstimate(now) ==
    ("urgency" :> "critical") @@ ("updated_at" :> now)
    @@ ("estimated_cost" :> calculate_estimated_cost([urgency |-> "critical"]))

\* what $set receives (lines 442-445)
EmergencySet(now) == ("urgency" :> "critical") @@ ("updated_at" :> now)

mark_booking_emergency(current_user, booking_id, env, now) ==
    IF Refusal(EmergencyRoles, current_user, booking_id) # 200
    THEN Outcome(Refusal(EmergencyRoles, current_user, booking_id), bookings, <<>>, <<>>)
    ELSE
    LET booking_data == find_one(bookings, booking_id)[1]
        patient_name == ResolvePatientName(booking_data.patient_id)
        booking_dict == SetFields(booking_data, EmergencySet(now))
        modified_count == IF booking_dict = booking_data THEN 0 ELSE 1
        store == [bookings EXCEPT ![booking_id] = booking_dict]
        alert == EmergencyAlert("escalation", booking_id, env.deliveryFails)
        message == BroadcastMessage("emergency_alert", booking_id, Null,
                                    Some("critical"), patient_name)
    IN  IF modified_count = 0
        THEN Outcome(404, bookings, <<>>, <<>>)
        ELSE IF send_notification(env.deliveryFails).raised
        THEN Outcome(500, store, <<>>, <<>>)
        ELSE Outcome(200, store, <<alert>>, <<message>>)

(***************************************************************************)
(* GET /api/bookings and GET /api/bookings/{booking_id}                    *)
(***************************************************************************)
\* the query of get_bookings (lines 222-227): status is Null when the request
\* names none
Matches(booking, current_user, status) ==
    /\ status # Null => booking.status = status[1]
    /\ RoleOf(current_user) = "hospital_staff" => booking.created_by = current_user

\* find(query).sort("created_at", -1): the ids found, latest first. Bookings
\* are stored in the order of their created_at, so this is the reverse of the
\* store's order.
FindSorted(current_user, status) ==
    LET found == SelectSeq([i \in 1..Len(bookings) |-> i],
                           LAMBDA i : Matches(bookings[i], current_user, status))
    IN  [k \in 1..Len(found) |-> found[Len(found) + 1 - k]]

\* cursor.skip(skip).limit(limit); limit(0) sets no limit
SkipLimit(list, skip, limit) ==
    LET rest == SubSeq(list, skip + 1, Len(list))
    IN  IF limit = 0 \/ limit >= Len(rest) THEN rest ELSE SubSeq(rest, 1, limit)

\* [resp, items]: items are the ids of the bookings returned, in order
get_bookings(current_user, status, skip, limit) ==
    LET page == SkipLimit(FindSorted(current_user, status), skip, limit)
    IN  IF \E k \in 1..Len(page) : ResponseTimeRaises(bookings[page[k]])
        THEN [resp |-> 500, items |-> <<>>]          \* leaves the loop, line 250
        ELSE [resp |-> 200, items |-> page]

get_booking(current_user, booking_id) ==
    IF ~ObjectIdIsValid(booking_id)
    THEN [resp |-> 400, items |-> <<>>]
    ELSE IF find_one(bookings, booking_id) = Null
    THEN [resp |-> 404, items |-> <<>>]
    ELSE
    LET booking_data == find_one(bookings, booking_id)[1]
    IN  IF /\ RoleOf(current_user) = "hospital_staff"
           /\ booking_data.created_by # current_user
        THEN [resp |-> 403, items |-> <<>>]
        ELSE IF /\ booking_data.patient_id # Null
                /\ booking_data.patient_id[1] \in MalformedPatientIds
        THEN [resp |-> 500, items |-> <<>>]          \* ObjectId(...) raises
        ELSE IF ResponseTimeRaises(booking_data)
        THEN [resp |-> 500, items |-> <<>>]
        ELSE [resp |-> 200, items |-> <<booking_id>>]

(***************************************************************************)
(* GET /api/bookings/pending/count and /completed/stats                    *)
(***************************************************************************)
StatsRoles == {"superadmin", "dispatcher"}

WithStatus(status) == SelectSeq(bookings, LAMBDA b : b.status = status)

RECURSIVE SumOf(_, _)
SumOf(list, field) ==
    IF list = <<>> THEN 0 ELSE Head(list)[field][1] + SumOf(Tail(list), field)

\* the average cut off after two decimals instead of rounded
TruncatedAverage(total, count) ==
    IF count > 0 THEN (100 * total) \div count ELSE 0

\* round(total / count, 2), kept in hundredths. round() takes the nearest
\* value; a tie needs a count that is a multiple of 8, more than any store
\* explored holds.
RoundedAverage(total, count) ==
    IF count > 0 THEN (200 * total + count) \div (2 * count) ELSE 0

get_pending_approvals_count(current_user) ==
    IF RoleOf(current_user) \notin StatsRoles
    THEN [resp |-> 403, result |-> NoResult]
    ELSE [resp |-> 200, result |-> [NoResult EXCEPT !.count = Len(WithStatus("pending"))]]

get_completed_bookings_stats(current_user) ==
    LET completed_bookings == WithStatus("completed")
        booking_count == Len(completed_bookings)
    IN  IF RoleOf(current_user) \notin StatsRoles
        THEN [resp |-> 403, result |-> NoResult]
        ELSE IF \E i \in 1..booking_count :
                    \/ completed_bookings[i].actual_cost = Null
                    \/ completed_bookings[i].flight_duration = Null
        THEN [resp |-> 500, result |-> NoResult]      \* int + None raises
        ELSE LET total_revenue == SumOf(completed_bookings, "actual_cost")
                 total_flight_time == SumOf(completed_bookings, "flight_duration")
             IN  [resp |-> 200,
                  result |->
                      [count |-> booking_count,
                       total_revenue |-> total_revenue,
                       total_flight_time |-> total_flight_time,
                       average_flight_time |->
                           RoundedAverage(total_flight_time, booking_count),
                       average_revenue_per_booking |->
                           RoundedAverage(total_revenue, booking_count)]]

(***************************************************************************)
(* One request, handled from start to end.                                 *)
(***************************************************************************)
Handle(op, actor, id, body, out, result, now) ==
    LET b == IF out.bcasts = <<>>
             THEN [conns |-> active_connections, inbox |-> received]
             ELSE broadcast(active_connections, received, out.bcasts[1])
    IN  /\ nreq < MaxRequests
        /\ nreq' = nreq + 1
        /\ bookings' = out.store
        /\ completed_once' =
               completed_once
               \cup {i \in DOMAIN out.store : out.store[i].status = "completed"}
        /\ active_connections' = b.conns
        /\ received' = b.inbox
        /\ clock' = now
        /\ last' = Response(op, actor, id, out.resp, body, out.notifs, out.bcasts, result)
        /\ UNCHANGED <<users, sock, call>>

Envs == [lookupFails : BOOLEAN, deliveryFails : BOOLEAN]
NoFailure == [lookupFails |-> FALSE, deliveryFails |-> FALSE]

\* dt: whether the clock has moved on since it was last read
CreateBooking(actor, input, env, dt) ==
    LET now == clock + dt
        out == create_booking(actor, input, env, now)
    IN  /\ Len(bookings) < MaxBookings
        /\ Handle("create", actor, IF out.store # bookings THEN Len(out.store) ELSE NoId,
                  IF out.resp = 403 THEN NoBody ELSE input, out, NoResult,
                  IF out.store # bookings THEN now ELSE clock)

\* the outcomes of the draw at line 339, which runs only when the body
\* completes the booking without a flight_duration; 0: no draw
Draws(booking_update) ==
    IF /\ "status" \in DOMAIN booking_update
       /\ booking_update.status = Some("completed")
       /\ \/ "flight_duration" \notin DOMAIN booking_update
          \/ booking_update.flight_duration = Null
    THEN calculate_flight_duration
    ELSE {0}

UpdateBooking(actor, id, booking_update, env, dt) ==
    \E randint \in Draws(booking_update) :
        LET now == clock + dt
            out == update_booking(actor, id, booking_update, env, now, randint)
            read == out.resp \notin {400, 403} /\ id \in DOMAIN bookings
        IN  Handle("update", actor, id, IF read THEN booking_update ELSE NoBody, out,
                   NoResult, IF read THEN now ELSE clock)

MarkEmergency(actor, id, env, dt) ==
    LET now == clock + dt
        out == mark_booking_emergency(actor, id, env, now)
        read == out.resp \notin {400, 403} /\ id \in DOMAIN bookings
    IN  Handle("emergency", actor, id, NoBody, out, NoResult,
               IF read THEN now ELSE clock)

PendingCount(actor) ==
    LET r == get_pending_approvals_count(actor)
    IN  Handle("pending_count", actor, NoId, NoBody,
               Outcome(r.resp, bookings, <<>>, <<>>), r.result, clock)

CompletedStats(actor) ==
    LET r == get_completed_bookings_stats(actor)
    IN  Handle("completed_stats", actor, NoId, NoBody,
               Outcome(r.resp, bookings, <<>>, <<>>), r.result, clock)

\* status: Null or <<a status>>
ListBookings(actor, status, skip, limit) ==
    LET r == get_bookings(actor, status, skip, limit)
    IN  Handle("list", actor, NoId, [status |-> status, skip |-> skip, limit |-> limit],
               Outcome(r.resp, bookings, <<>>, <<>>),
               [NoResult EXCEPT !.items = r.items], clock)

GetBooking(actor, id) ==
    LET r == get_booking(actor, id)
    IN  Handle("get", actor, id, NoBody, Outcome(r.resp, bookings, <<>>, <<>>),
               [NoResult EXCEPT !.items = r.items], clock)

(***************************************************************************)
(* Websocket endpoint.                                                     *)
(***************************************************************************)
\* manager.connect and the greeting (lines 532-537)
WsConnect(c) ==
    /\ sock[c] = "unused"
    /\ sock' = [sock EXCEPT ![c] = "open"]
    /\ active_connections' = Append(active_connections, c)
    /\ received' = [received EXCEPT ![c] = Append(@, "connection_established")]
    /\ UNCHANGED <<users, bookings, clock, nreq, completed_once, last, call>>

\* the peer goes away: every later send on the socket raises
WsPeerCloses(c) ==
    /\ sock[c] = "open"
    /\ sock' = [sock EXCEPT ![c] = "closed"]
    /\ UNCHANGED <<users, bookings, clock, nreq, active_connections, received,
                   completed_once, last, call>>

\* receive_text raises WebSocketDisconnect: manager.disconnect (lines 554-555)
WsHandlerExit(c) ==
    /\ sock[c] = "closed"
    /\ \E i \in 1..Len(active_connections) : active_connections[i] = c
    /\ active_connections' = disconnect(active_connections, c)
    /\ UNCHANGED <<users, bookings, clock, nreq, sock, received, completed_once, last,
                   call>>

(***************************************************************************)
(* Websocket endpoint and broadcast, one step per stretch of code between  *)
(* two awaits. sock[c] is then the place of the handler of c: "accepted"   *)
(* after manager.connect, "open" after the greeting, "closed" once the     *)
(* peer has gone, "gone" when the handler has ended. call holds the frame  *)
(* of the broadcast in flight.                                             *)
(***************************************************************************)
Registered(conns, c) == \E i \in 1..Len(conns) : conns[i] = c

\* a send on the socket succeeds
Sendable(c) == sock[c] \in {"accepted", "open"}

\* manager.connect (lines 43-45): accept, then register
WsAccept(c) ==
    /\ sock[c] = "unused"
    /\ sock' = [sock EXCEPT ![c] = "accepted"]
    /\ active_connections' = Append(active_connections, c)
    /\ UNCHANGED <<users, bookings, clock, nreq, received, completed_once, last, call>>

\* the greeting (lines 534-537)
WsGreet(c) ==
    /\ sock[c] = "accepted"
    /\ sock' = [sock EXCEPT ![c] = "open"]
    /\ received' = [received EXCEPT ![c] = Append(@, "connection_established")]
    /\ UNCHANGED <<users, bookings, clock, nreq, active_connections, completed_once,
                   last, call>>

\* the texts a peer sends: {"type": "ping"}, another JSON object, a text that
\* is not JSON, and JSON that is not an object, such as [1] or "ping"
Frames == {"ping", "object", "not_json", "not_object"}

\* one turn of the loop of lines 539-552. json.loads of JSON that is not an
\* object returns a value without .get: the AttributeError is caught by
\* neither except clause and ends the handler, which leaves the channel in
\* the registry.
WsFrame(c, frame) ==
    /\ sock[c] = "open"
    /\ nreq < MaxRequests
    /\ nreq' = nreq + 1
    /\ sock' = [sock EXCEPT ![c] = IF frame = "not_object" THEN "gone" ELSE "open"]
    /\ received' = [received EXCEPT ![c] = IF frame = "ping" THEN Append(@, "pong") ELSE @]
    /\ last' = Response("frame", c, NoId, 0, <<frame>>, <<>>, <<>>, NoResult)
    /\ UNCHANGED <<users, bookings, clock, active_connections, completed_once, call>>

\* receive_text raises WebSocketDisconnect: manager.disconnect (lines 554-555),
\* whether or not the channel is still registered
WsDisconnected(c) ==
    /\ sock[c] = "closed"
    /\ sock' = [sock EXCEPT ![c] = "gone"]
    /\ active_connections' = disconnect(active_connections, c)
    /\ last' = Response("disconnect", c, NoId, 0,
                        <<Registered(active_connections, c)>>, <<>>, <<>>, NoResult)
    /\ UNCHANGED <<users, bookings, clock, nreq, received, completed_once, call>>

\* a handler reaches manager.broadcast (line 55). audience and sent are kept
\* for the properties only: the channels registered and greeted, with a
\* working socket, at the start, and the channels sent to so far.
BroadcastStart(type) ==
    /\ call = NoCall
    /\ nreq < MaxRequests
    /\ nreq' = nreq + 1
    /\ call' = [fn |-> "broadcast", message |-> type, i |-> 1,
                disconnected_connections |-> <<>>,
                audience |-> {c \in AllChannels :
                                 Registered(active_connections, c) /\ sock[c] = "open"},
                sent |-> <<>>]
    /\ UNCHANGED <<users, bookings, clock, active_connections, sock, received,
                   completed_once, last>>

\* one turn of the loop of lines 56-60: the list iterator yields the element
\* at its index in the list as it is now
BroadcastSend ==
    /\ call.fn = "broadcast"
    /\ call.i <= Len(active_connections)
    /\ LET connection == active_connections[call.i]
       IN  IF Sendable(connection)
           THEN /\ received' = [received EXCEPT ![connection] = Append(@, call.message)]
                /\ call' = [call EXCEPT !.i = @ + 1, !.sent = Append(@, connection)]
           ELSE /\ received' = received
                /\ call' = [call EXCEPT !.i = @ + 1,
                                        !.disconnected_connections = Append(@, connection)]
    /\ UNCHANGED <<users, bookings, clock, nreq, active_connections, sock,
                   completed_once, last>>

\* the iterator is exhausted: lines 62-63
BroadcastEnd ==
    /\ call.fn = "broadcast"
    /\ call.i > Len(active_connections)
    /\ active_connections' =
           DisconnectAll(active_connections, call.disconnected_connections)
    /\ call' = NoCall
    /\ last' = Response("broadcast", "", NoId, 0, <<call.audience, call.sent>>,
                        <<>>, <<>>, NoResult)
    /\ UNCHANGED <<users, bookings, clock, nreq, sock, received, completed_once>>

(***************************************************************************)
(* A request with its credential: the dependency get_current_active_user   *)
(* is resolved first, then the handler runs, or the request is answered    *)
(* with the status the dependency raised. call holds the resolution.       *)
(***************************************************************************)
Authenticate(token) ==
    /\ nreq < MaxRequests
    /\ call' = [fn |-> "get_current_active_user", token |-> token,
                value |-> get_current_active_user(token)]
    /\ UNCHANGED <<users, bookings, clock, nreq, active_connections, sock, received,
                   completed_once, last>>

BookingOperations ==
    {"create", "list", "get", "update", "emergency", "pending_count", "completed_stats"}

\* the dependency raised: the handler does not run
Rejected(op) ==
    /\ call.fn = "get_current_active_user"
    /\ call.value.resp # 200
    /\ Handle(op, "", NoId, NoBody, Outcome(call.value.resp, bookings, <<>>, <<>>),
              NoResult, clock)

(***************************************************************************)
(* create_booking, one step per stretch of code between two awaits (lines  *)
(* 181, 184, 193, 198). call holds the frame of the request in flight: its *)
(* local booking_dict, which later writes to the store do not change, and  *)
(* emitted, the calls made so far in their order (kept for the properties).*)
(***************************************************************************)
\* every urgency alerted
AlertDueAlways(booking_dict) == TRUE

\* booking_dict.get("urgency") == "critical" (line 191)
AlertDue(booking_dict) == get(booking_dict, "urgency", Null) = "critical"

\* lines 131-178: the role check, the insert and the conversion for the
\* response; a request that ends here is answered at once
CreateInsert(actor, input, dt) ==
    LET now == clock + dt
        refused == RoleOf(actor) \notin CreateRoles
        booking_dict == NewBooking(input, actor, now)
        store == IF refused THEN bookings ELSE Append(bookings, booking_dict)
        raises == ~refused /\ ResponseTimeRaises(booking_dict)
    IN  /\ call = NoCall
        /\ nreq < MaxRequests
        /\ Len(bookings) < MaxBookings
        /\ input.patient_id = Null
        /\ nreq' = nreq + 1
        /\ bookings' = store
        /\ clock' = IF refused THEN clock ELSE now
        /\ IF refused \/ raises
           THEN /\ call' = NoCall
                /\ last' = Response("create", actor,
                                    IF refused THEN NoId ELSE Len(store),
                                    IF refused THEN 403 ELSE 500,
                                    IF refused THEN NoBody ELSE input,
                                    <<>>, <<>>, NoResult)
           ELSE /\ call' = [fn |-> "create_booking", current_user |-> actor,
                            input |-> input, booking_dict |-> booking_dict,
                            booking_id |-> Len(store),
                            patient_name |-> ResolvePatientName(input.patient_id),
                            pc |-> "notify", notifs |-> <<>>, emitted |-> <<>>]
                /\ last' = last
        /\ UNCHANGED <<users, active_connections, sock, received, completed_once>>

\* lines 181-189: the recipients, then the created notification
CreateNotify ==
    /\ call.fn = "create_booking"
    /\ call.pc = "notify"
    /\ LET rcp == get_notification_recipients(call.booking_dict, call.current_user,
                                              "created", FALSE)
           created == BookingNotification("created", "info", rcp.recipients,
                                          call.booking_id, "", "pending", FALSE)
       IN  call' = [call EXCEPT !.pc = IF AlertDue(call.booking_dict) THEN "alert"
                                       ELSE "broadcast",
                                !.notifs = Append(@, created),
                                !.emitted = Append(@, created.kind)]
    /\ UNCHANGED <<users, bookings, clock, nreq, active_connections, sock, received,
                   completed_once, last>>

\* lines 191-196
CreateAlert ==
    /\ call.fn = "create_booking"
    /\ call.pc = "alert"
    /\ LET alert == EmergencyAlert("critical_patient", call.booking_id, FALSE)
       IN  call' = [call EXCEPT !.pc = "broadcast",
                                !.notifs = Append(@, alert),
                                !.emitted = Append(@, alert.kind)]
    /\ UNCHANGED <<users, bookings, clock, nreq, active_connections, sock, received,
                   completed_once, last>>

\* lines 198-207: the broadcast and the answer
CreateBroadcast ==
    /\ call.fn = "create_booking"
    /\ call.pc = "broadcast"
    /\ LET message == BroadcastMessage("booking_created", call.booking_id, Null,
                                       Some(get(call.booking_dict, "urgency", Null)),
                                       call.patient_name)
           b == broadcast(active_connections, received, message)
       IN  /\ active_connections' = b.conns
           /\ received' = b.inbox
           /\ last' = [Response("create", call.current_user, call.booking_id, 200,
                                call.input, call.notifs, <<message>>, NoResult)
                           EXCEPT !.events = Append(call.emitted, message.type)]
    /\ call' = NoCall
    /\ UNCHANGED <<users, bookings, clock, nreq, sock, completed_once>>

(***************************************************************************)
(* Two requests PUT /api/bookings/{booking_id} for the same booking, by    *)
(* the dispatcher, one step per store operation (find_one at line 321,     *)
(* update_one at line 356, find_one at line 364). call holds the frames of *)
(* the two handlers and prior, the booking as stored before both (kept for *)
(* the properties).                                                        *)
(***************************************************************************)
UpdateTasks == {1, 2}

\* replace_one in place of $set: the fields the update does not carry reset
update_one_replacing(collection, id, update_data) ==
    [collection EXCEPT ![id] =
        [f \in DOMAIN collection[id] |->
            IF f \in DOMAIN update_data THEN update_data[f]
            ELSE NewBooking([patient_id |-> Null, urgency |-> "stable",
                             required_equipment |-> <<>>, preferred_time |-> Null],
                            collection[id].created_by, collection[id].created_at)[f]]]

\* update_one({"_id": ObjectId(booking_id)}, {"$set": update_data}), lines 356-359
update_one(collection, id, update_data) ==
    [collection EXCEPT ![id] = SetFields(collection[id], update_data)]

\* both requests have arrived
ConcurrentUpdates(id, p1, p2) ==
    /\ call = NoCall
    /\ nreq + 2 <= MaxRequests
    /\ id \in DOMAIN bookings
    /\ nreq' = nreq + 2
    /\ call' = [fn |-> "update_booking", booking_id |-> id, prior |-> bookings[id],
                tasks |-> [t \in UpdateTasks |->
                              [booking_update |-> IF t = 1 THEN p1 ELSE p2,
                               pc |-> "read", current_booking |-> Null, randint |-> 0,
                               update_data |-> Null, modified_count |-> 0]]]
    /\ UNCHANGED <<users, bookings, clock, active_connections, sock, received,
                   completed_once, last>>

\* lines 307-343: the role check, the id check, find_one, and the draw
UpdateRead(t) ==
    /\ call.fn = "update_booking"
    /\ call.tasks[t].pc = "read"
    /\ RoleOf("u_disp") \in UpdateRoles
    /\ ObjectIdIsValid(call.booking_id)
    /\ find_one(bookings, call.booking_id) # Null
    /\ \E randint \in Draws(call.tasks[t].booking_update) :
           call' = [call EXCEPT !.tasks[t].pc = "write",
                                !.tasks[t].current_booking =
                                    find_one(bookings, call.booking_id),
                                !.tasks[t].randint = randint]
    /\ UNCHANGED <<users, bookings, clock, nreq, active_connections, sock, received,
                   completed_once, last>>

\* lines 331-359: update_data, from the booking this handler read, and
\* update_one on the booking as stored now
UpdateWrite(t, dt) ==
    /\ call.fn = "update_booking"
    /\ call.tasks[t].pc = "write"
    /\ LET now == clock + dt
           update_data == UpdateData(call.tasks[t].booking_update,
                                     call.tasks[t].current_booking[1], now,
                                     call.tasks[t].randint)
           store == update_one(bookings, call.booking_id, update_data)
       IN  /\ bookings' = store
           /\ clock' = now
           /\ completed_once' =
                  completed_once
                  \cup {i \in DOMAIN store : store[i].status = "completed"}
           /\ call' = [call EXCEPT !.tasks[t].pc = "answer",
                                   !.tasks[t].update_data = Some(update_data),
                                   !.tasks[t].modified_count =
                                       IF store = bookings THEN 0 ELSE 1]
    /\ UNCHANGED <<users, nreq, active_connections, sock, received, last>>

\* lines 361-406: the booking read again, the notifications, the broadcast,
\* the answer
UpdateAnswer(t) ==
    /\ call.fn = "update_booking"
    /\ call.tasks[t].pc = "answer"
    /\ LET task == call.tasks[t]
           plain == DropNone(task.booking_update)
           old_status == task.current_booking[1].status
           new_status == IF "status" \in DOMAIN plain THEN Some(plain.status) ELSE Null
           status_changed == StatusChanged(new_status, old_status)
           booking_dict == find_one(bookings, call.booking_id)[1]
           rcp == get_notification_recipients(booking_dict, "u_disp", "status_change",
                                              FALSE)
           changed == BookingNotification("status_change", Severity(new_status),
                                          rcp.recipients, call.booking_id, old_status,
                                          IF new_status # Null THEN new_status[1] ELSE "",
                                          FALSE)
           done == BookingNotification("completed", "success", rcp.recipients,
                                       call.booking_id, "", "completed", FALSE)
           notifs == IF ~status_changed THEN <<>>
                     ELSE IF new_status = Some("completed") THEN <<changed, done>>
                     ELSE <<changed>>
           message == BroadcastMessage(
                          "booking_updated", call.booking_id,
                          IF status_changed THEN new_status ELSE Null, Null,
                          ResolvePatientName(task.current_booking[1].patient_id))
           out == IF task.modified_count = 0
                  THEN Outcome(404, bookings, <<>>, <<>>)
                  ELSE IF ResponseTimeRaises(booking_dict)
                  THEN Outcome(500, bookings, <<>>, <<>>)
                  ELSE Outcome(200, bookings, notifs, <<message>>)
           b == IF out.bcasts = <<>>
                THEN [conns |-> active_connections, inbox |-> received]
                ELSE broadcast(active_connections, received, out.bcasts[1])
       IN  /\ active_connections' = b.conns
           /\ received' = b.inbox
           /\ last' = Response("update", "u_disp", call.booking_id, out.resp,
                               task.booking_update, out.notifs, out.bcasts, NoResult)
    /\ call' = [call EXCEPT !.tasks[t].pc = "done"]
    /\ UNCHANGED <<users, bookings, clock, nreq, sock, completed_once>>

\* both requests have been answered
UpdatesEnd ==
    /\ call.fn = "update_booking"
    /\ \A t \in UpdateTasks : call.tasks[t].pc = "done"
    /\ call' = NoCall
    /\ UNCHANGED <<users, bookings, clock, nreq, active_connections, sock, received,
                   completed_once, last>>

(***************************************************************************)
(* Specification.                                                          *)
(***************************************************************************)
Init ==
    /\ users = InitialUsers
    /\ bookings = <<>>
    /\ clock = 0
    /\ nreq = 0
    /\ active_connections = <<>>
    /\ sock = [c \in AllChannels |-> "unused"]
    /\ received = [c \in AllChannels |-> <<>>]
    /\ completed_once = {}
    /\ last = Response("none", "", NoId, 0, NoBody, <<>>, <<>>, NoResult)
    /\ call = NoCall

(***************************************************************************)
(* Request bodies explored.                                                *)
(***************************************************************************)
Urgencies == {"stable", "urgent", "critical"}
EquipmentLists == {<<>>, <<"ventilator", "monitor">>}
PatientRefs == {Null, Some("p1"), Some("zz")}
WholeSecond == <<10, 30, 0, 0>>
WithMicroseconds == <<10, 30, 0, 500000>>

\* bodies that carry only the fields of a new booking
PlainInputs(urgencies, equipment, patients, times) ==
    [patient_id : patients, urgency : urgencies, required_equipment : equipment,
     preferred_time : times]

\* a body that also carries values for the fields the handler sets itself
Carrying(input) ==
    [f \in DOMAIN input \cup {"status", "assigned_crew_ids", "assigned_aircraft_id",
                             "actual_cost", "flight_duration", "created_by",
                             "estimated_cost"} |->
        CASE f = "status"               -> "completed"
          [] f = "assigned_crew_ids"    -> <<"c9">>
          [] f = "assigned_aircraft_id" -> Some("a9")
          [] f = "actual_cost"          -> Some(1)
          [] f = "flight_duration"      -> Some(1)
          [] f = "created_by"           -> "u_sa"
          [] f = "estimated_cost"       -> 1
          [] OTHER                      -> input[f]]

\* the values a BookingUpdate body may give a field (Null: explicit null)
PatchValues(f) ==
    CASE f = "status"          -> {Null, Some("in_progress"), Some("completed"),
                                   Some("cancelled")}
      [] f = "urgency"              -> {Null, Some("critical")}
      [] f = "required_equipment"   -> {Null, Some(<<"stretcher">>)}
      [] f = "preferred_time"       -> {Null, Some(Some(WholeSecond))}
      [] f = "assigned_crew_ids"    -> {Null, Some(<<>>), Some(<<"c1">>)}
      [] f = "assigned_aircraft_id" -> {Null, Some(Some("a1"))}
      [] f = "flight_duration"      -> {Null, Some(Some(45))}
      [] f = "actual_cost"          -> {Null, Some(Some(999))}

\* the empty body, every body that carries one of the given fields, and every
\* body that carries the status and one of them
Patches(fields) ==
    {NoBody}
    \cup UNION {{f :> v : v \in PatchValues(f)} : f \in fields}
    \cup UNION {{("status" :> v) @@ (g :> w) :
                     v \in PatchValues("status"), w \in PatchValues(g)} :
                 g \in fields \ {"status"}}

AllActors == {"u_sa", "u_disp", "u_staff", "u_doc"}
BookingIds == 0..(MaxBookings + 1)

WsSteps(channels) ==
    \/ \E c \in channels : WsConnect(c)
    \/ \E c \in channels : WsPeerCloses(c)
    \/ \E c \in channels : WsHandlerExit(c)

OneField(f) == {f :> v : v \in PatchValues(f)}

PatchableFields ==
    {"status", "urgency", "required_equipment", "preferred_time", "assigned_crew_ids",
     "assigned_aircraft_id", "flight_duration", "actual_cost"}

\* every operation, every role
Next ==
    \/ \E a \in AllActors, input \in PlainInputs({"stable"}, {<<>>}, {Null}, {Null}) :
          CreateBooking(a, input, NoFailure, 1)
    \/ \E a \in AllActors, id \in BookingIds,
          p \in {NoBody} \cup OneField("status") \cup OneField("assigned_aircraft_id") :
          UpdateBooking(a, id, p, NoFailure, 1)
    \/ \E a \in AllActors, id \in BookingIds : MarkEmergency(a, id, NoFailure, 1)
    \/ \E a \in AllActors : PendingCount(a)
    \/ \E a \in AllActors : CompletedStats(a)
    \/ WsSteps({"w1"})

Spec == Init /\ [][Next]_vars

\* creation: every urgency and equipment list, bodies that carry more
CreateInputs ==
    LET plain == PlainInputs(Urgencies, EquipmentLists, PatientRefs, {Null})
    IN  plain \cup {Carrying(i) : i \in plain}

NextCreate ==
    \E a \in {"u_disp", "u_staff", "u_doc"}, input \in CreateInputs :
        CreateBooking(a, input, NoFailure, 1)

SpecCreate == Init /\ [][NextCreate]_vars

\* updates: bodies of one field, and of the status with one more field
NextUpdate ==
    \/ \E input \in PlainInputs({"stable", "urgent"}, {<<"ventilator", "monitor">>},
                                 {Null}, {Null}) :
          CreateBooking("u_disp", input, NoFailure, 1)
    \/ \E id \in 1..MaxBookings, p \in Patches(PatchableFields) :
          UpdateBooking("u_disp", id, p, NoFailure, 1)
    \/ \E id \in 1..MaxBookings, p \in OneField("status") :
          UpdateBooking("u_staff", id, p, NoFailure, 1)
    \/ \E id \in 1..MaxBookings : MarkEmergency("u_doc", id, NoFailure, 1)

SpecUpdate == Init /\ [][NextUpdate]_vars

\* failing collaborators, closed channels, times of day that do not re-parse
NextFaults ==
    \/ \E env \in Envs,
          input \in PlainInputs({"stable", "critical"}, {<<>>}, {Null},
                                {Null, Some(WholeSecond), Some(WithMicroseconds)}) :
          CreateBooking("u_disp", input, env, 1)
    \/ \E id \in 1..MaxBookings, env \in Envs,
          p \in {NoBody} \cup OneField("status") \cup OneField("preferred_time") :
          UpdateBooking("u_disp", id, p, env, 1)
    \/ \E id \in 1..MaxBookings, env \in Envs : MarkEmergency("u_doc", id, env, 1)
    \/ WsSteps({"w1"})

SpecFaults == Init /\ [][NextFaults]_vars

\* requests repeated within one clock tick and across ticks, on stored, absent
\* and malformed ids
DeliveryFails == [lookupFails |-> FALSE, deliveryFails |-> TRUE]

NextRepeat ==
    \/ \E input \in PlainInputs({"stable", "critical"}, {<<>>}, {Null}, {Null}) :
          CreateBooking("u_disp", input, NoFailure, 1)
    \/ \E id \in BookingIds, p \in {NoBody} \cup OneField("urgency"), dt \in {0, 1} :
          UpdateBooking("u_disp", id, p, NoFailure, dt)
    \/ \E a \in {"u_disp", "u_staff", "u_doc"}, id \in BookingIds,
          env \in {NoFailure, DeliveryFails}, dt \in {0, 1} :
          MarkEmergency(a, id, env, dt)

SpecRepeat == Init /\ [][NextRepeat]_vars

\* broadcasts of creations to two channels, open or closed by their peers
NextBroadcast ==
    \/ \E input \in PlainInputs({"stable"}, {<<>>}, {Null}, {Null}) :
          CreateBooking("u_disp", input, NoFailure, 1)
    \/ \E c \in AllChannels : WsConnect(c)
    \/ \E c \in AllChannels : WsPeerCloses(c)

SpecBroadcast == Init /\ [][NextBroadcast]_vars

\* channels and broadcasts in steps: connections, frames and disconnections
\* between the sends of a broadcast
NextChannels ==
    \/ \E c \in AllChannels : WsAccept(c)
    \/ \E c \in AllChannels : WsGreet(c)
    \/ \E c \in AllChannels, frame \in Frames : WsFrame(c, frame)
    \/ \E c \in AllChannels : WsPeerCloses(c)
    \/ \E c \in AllChannels : WsDisconnected(c)
    \/ BroadcastStart("booking_created")
    \/ BroadcastSend
    \/ BroadcastEnd

SpecChannels == Init /\ [][NextChannels]_vars

\* creations and updates with a users lookup that works or fails
LookupFails == [lookupFails |-> TRUE, deliveryFails |-> FALSE]

NextLookup ==
    \/ \E a \in {"u_disp", "u_staff"},
          input \in PlainInputs({"stable", "critical"}, {<<>>}, {Null}, {Null}),
          env \in {NoFailure, LookupFails} :
          CreateBooking(a, input, env, 1)
    \/ \E id \in 1..MaxBookings, p \in OneField("status"),
          env \in {NoFailure, LookupFails} :
          UpdateBooking("u_disp", id, p, env, 1)

SpecLookup == Init /\ [][NextLookup]_vars

\* reads: listings and single bookings, with stored times that do not re-parse
DefaultLimit == 100
Pages == {<<0, DefaultLimit>>, <<1, DefaultLimit>>, <<0, 1>>}

NextRead ==
    \/ \E a \in {"u_disp", "u_staff"},
          input \in PlainInputs({"stable"}, {<<>>}, {Null},
                                {Null, Some(WithMicroseconds)}) :
          CreateBooking(a, input, NoFailure, 1)
    \/ \E id \in 1..MaxBookings :
          UpdateBooking("u_disp", id, "status" :> Some("cancelled"), NoFailure, 1)
    \/ \E a \in {"u_disp", "u_staff", "u_doc"},
          status \in {Null, Some("pending"), Some("cancelled")}, page \in Pages :
          ListBookings(a, status, page[1], page[2])
    \/ \E a \in {"u_disp", "u_staff", "u_doc"}, id \in BookingIds : GetBooking(a, id)

SpecRead == Init /\ [][NextRead]_vars

\* the cost functions on their own: booking dicts with and without an urgency
\* and an equipment list, known and unknown urgencies
MaxEquipment == 3
CostDurations == {0, 30, 45, 180}

CostInputs ==
    LET urgency == {<<>>} \cup {"urgency" :> u : u \in Urgencies \cup {"unknown", ""}}
        equipment == {<<>>} \cup {"required_equipment" :> [i \in 1..n |-> "ventilator"] :
                                     n \in 0..MaxEquipment}
    IN  {u @@ e : u \in urgency, e \in equipment}

InitCost ==
    /\ Init!1 /\ Init!2 /\ Init!3 /\ Init!4 /\ Init!5 /\ Init!6 /\ Init!7 /\ Init!8
    /\ Init!9
    /\ \E booking_data \in CostInputs, flight_duration \in CostDurations :
           call = [fn |-> "none", booking_data |-> booking_data,
                   flight_duration |-> flight_duration]

EstimateCost ==
    /\ call.fn = "none"
    /\ call' = [call EXCEPT !.fn = "calculate_estimated_cost"]
                   @@ [value |-> calculate_estimated_cost(call.booking_data)]
    /\ UNCHANGED <<users, bookings, clock, nreq, active_connections, sock, received,
                   completed_once, last>>

ActualCost ==
    /\ call.fn = "none"
    /\ call' = [call EXCEPT !.fn = "calculate_actual_cost"]
                   @@ [value |-> calculate_actual_cost(call.booking_data,
                                                       call.flight_duration)]
    /\ UNCHANGED <<users, bookings, clock, nreq, active_connections, sock, received,
                   completed_once, last>>

NextCost == EstimateCost \/ ActualCost

SpecCost == InitCost /\ [][NextCost]_vars

\* the recipients on their own: every combination of active and inactive
\* users, every actor, event kind and urgency, with and without a failing lookup
UserCollections ==
    {[i \in DOMAIN InitialUsers |-> [InitialUsers[i] EXCEPT !.is_active = active[i]]] :
        active \in [DOMAIN InitialUsers -> BOOLEAN]}

EventKinds == {"created", "updated", "emergency", "status_change"}

InitRecipients ==
    /\ users \in UserCollections
    /\ Init!2 /\ Init!3 /\ Init!4 /\ Init!5 /\ Init!6 /\ Init!7 /\ Init!8 /\ Init!9
    /\ \E booking \in {<<>>} \cup {"urgency" :> u : u \in {"stable", "critical"}},
          current_user \in {InitialUsers[i].id : i \in DOMAIN InitialUsers},
          action \in EventKinds :
           call = [fn |-> "none", booking |-> booking, current_user |-> current_user,
                   action |-> action]

Recipients(lookupFails) ==
    /\ call.fn = "none"
    /\ call' = [call EXCEPT !.fn = "get_notification_recipients"]
                   @@ [lookupFails |-> lookupFails,
                       value |-> get_notification_recipients(
                                     call.booking, call.current_user, call.action,
                                     lookupFails).recipients]
    /\ UNCHANGED <<users, bookings, clock, nreq, active_connections, sock, received,
                   completed_once, last>>

NextRecipients == \E lookupFails \in BOOLEAN : Recipients(lookupFails)

SpecRecipients == InitRecipients /\ [][NextRecipients]_vars

\* statistics over stores of up to MaxCompleted bookings, each as Create, or
\* Create and then a completing Update, leave it
MaxCompleted == 3

Completing(duration) ==
    ("status" :> Some("completed")) @@ ("flight_duration" :> Some(Some(duration)))

StatsHistories ==
    [input : PlainInputs({"stable"}, {<<>>}, {Null}, {Null}), duration : {0, 40, 45}]
    \cup [input : PlainInputs({"urgent"}, {<<"ventilator">>}, {Null}, {Null}),
          duration : {40}]

\* the record of a booking created at tick t and, when duration > 0, completed
\* at the next tick with that flight_duration
BookingAfter(history, t) ==
    LET created == NewBooking(history.input, "u_disp", t)
    IN  IF history.duration = 0 THEN created
        ELSE SetFields(created,
                       UpdateData(Completing(history.duration), created, t + 1, 0))

StoreAfter(histories) ==
    [i \in 1..Len(histories) |-> BookingAfter(histories[i], 2 * i - 1)]

InitStats ==
    \E n \in 0..MaxCompleted : \E histories \in [1..n -> StatsHistories] :
        /\ users = InitialUsers
        /\ bookings = StoreAfter(histories)
        /\ clock = 2 * n
        /\ nreq = 0
        /\ active_connections = <<>>
        /\ sock = [c \in AllChannels |-> "unused"]
        /\ received = [c \in AllChannels |-> <<>>]
        /\ completed_once = {i \in 1..n : histories[i].duration > 0}
        /\ last = Response("none", "", NoId, 0, NoBody, <<>>, <<>>, NoResult)
        /\ call = NoCall

NextStats ==
    \/ \E id \in 1..MaxCompleted,
          p \in {Completing(45), "status" :> Some("cancelled")} :
          UpdateBooking("u_disp", id, p, NoFailure, 1)
    \/ \E a \in {"u_disp", "u_staff"} : CompletedStats(a)
    \/ \E a \in {"u_disp", "u_staff"} : PendingCount(a)

SpecStats == InitStats /\ [][NextStats]_vars

\* requests with credentials of every kind
Tokens ==
    [signature : {"valid"},
     sub : {Null, Some("u_disp"), Some("u_staff"), Some("u_para"), Some("nobody")}]
    \cup [signature : {"none", "forged", "expired"}, sub : {Some("u_disp")}]

NextAuth ==
    \/ \E token \in Tokens : Authenticate(token)
    \/ \E op \in BookingOperations : Rejected(op)
    \/ /\ call.fn = "get_current_active_user"
       /\ call.value.resp = 200
       /\ LET current_user == call.value.user
          IN  \/ \E input \in PlainInputs({"critical"}, {<<>>}, {Null}, {Null}) :
                    CreateBooking(current_user, input, NoFailure, 1)
              \/ \E id \in 1..MaxBookings :
                    UpdateBooking(current_user, id, "status" :> Some("cancelled"),
                                  NoFailure, 1)
              \/ \E id \in 1..MaxBookings :
                    MarkEmergency(current_user, id, NoFailure, 1)
              \/ ListBookings(current_user, Null, 0, DefaultLimit)
              \/ \E id \in 1..MaxBookings : GetBooking(current_user, id)
              \/ PendingCount(current_user)
              \/ CompletedStats(current_user)
    \/ \E c \in {"w1"} : WsConnect(c)

SpecAuth == Init /\ [][NextAuth]_vars

\* creations in steps, with escalations and channel changes between the steps
NextCreateSteps ==
    \/ \E a \in {"u_disp", "u_doc"},
          input \in PlainInputs({"stable", "critical"}, {<<>>}, {Null},
                                {Null, Some(WithMicroseconds)}) :
          CreateInsert(a, input, 1)
    \/ CreateNotify
    \/ CreateAlert
    \/ CreateBroadcast
    \/ \E id \in 1..MaxBookings : MarkEmergency("u_doc", id, NoFailure, 1)
    \/ \E c \in {"w1"} : WsConnect(c)
    \/ \E c \in {"w1"} : WsPeerCloses(c)

SpecCreateSteps == Init /\ [][NextCreateSteps]_vars

\* pairs of concurrent updates of one booking: bodies of one field each
RacePatches ==
    OneField("status") \cup OneField("urgency") \cup OneField("flight_duration")
    \cup OneField("actual_cost") \cup OneField("assigned_crew_ids")

NextRace ==
    \/ /\ call = NoCall
       /\ \E input \in PlainInputs({"stable"}, {<<"ventilator", "monitor">>},
                                   {Null}, {Null}) :
             CreateBooking("u_disp", input, NoFailure, 1)
    \/ \E id \in 1..MaxBookings, p1 \in RacePatches, p2 \in RacePatches :
          ConcurrentUpdates(id, p1, p2)
    \/ \E t \in UpdateTasks : UpdateRead(t)
    \/ \E t \in UpdateTasks : UpdateWrite(t, 1)
    \/ \E t \in UpdateTasks : UpdateAnswer(t)
    \/ UpdatesEnd

SpecRace == Init /\ [][NextRace]_vars

(***************************************************************************)
(* Tokens with a role claim, and the users collection changing under them  *)
(* (routes/auth.py login, routes/users.py update_user). call holds the     *)
(* token the last login issued, which the later requests present.          *)
(***************************************************************************)
\* login (lines 100-132), the password right: the token carries the email and
\* the role stored at this moment
Login(email) ==
    /\ \E i \in DOMAIN users : users[i].id = email /\ users[i].is_active
    /\ call' = [fn |-> "login",
                token |-> [signature |-> "valid", sub |-> Some(email),
                           role |-> users[UserById(email)].role]]
    /\ UNCHANGED <<users, bookings, clock, nreq, active_connections, sock, received,
                   completed_once, last>>

\* the bodies of PUT /api/users/{user_id} explored
UserUpdates ==
    {"role" :> r : r \in {"dispatcher", "hospital_staff", "doctor"}}
    \cup {"is_active" :> a : a \in BOOLEAN}

\* update_user (lines 80-120): $set of the fields the body carries
UpdateUser(actor, user_id, user_update) ==
    LET refused == users[UserById(actor)].role # "superadmin" /\ actor # user_id
        found == \E i \in DOMAIN users : users[i].id = user_id
        resp == IF refused THEN 403 ELSE IF ~found THEN 404 ELSE 200
    IN  /\ nreq < MaxRequests
        /\ nreq' = nreq + 1
        /\ users' = IF resp # 200 THEN users
                    ELSE [users EXCEPT ![UserById(user_id)] =
                              [f \in DOMAIN @ |->
                                  IF f \in DOMAIN user_update THEN user_update[f]
                                  ELSE @[f]]]
        /\ last' = Response("update_user", actor, NoId, resp, user_update, <<>>, <<>>,
                            NoResult)
        /\ UNCHANGED <<bookings, clock, active_connections, sock, received,
                       completed_once, call>>

\* a booking request that presents the token of the last login: the
\* dependency, then the handler with the user the dependency returned
WithToken(op, id) ==
    /\ call.fn = "login"
    /\ LET who == get_current_active_user(call.token)
           current_user == who.user
       IN  IF who.resp # 200
           THEN Handle(op, "", NoId, NoBody, Outcome(who.resp, bookings, <<>>, <<>>),
                       NoResult, clock)
           ELSE CASE op = "create" ->
                     CreateBooking(current_user,
                                   [patient_id |-> Null, urgency |-> "stable",
                                    required_equipment |-> <<>>,
                                    preferred_time |-> Null], NoFailure, 1)
                  [] op = "update" ->
                     UpdateBooking(current_user, id, "status" :> Some("cancelled"),
                                   NoFailure, 1)
                  [] op = "emergency" -> MarkEmergency(current_user, id, NoFailure, 1)
                  [] op = "list" -> ListBookings(current_user, Null, 0, DefaultLimit)
                  [] op = "get" -> GetBooking(current_user, id)
                  [] op = "pending_count" -> PendingCount(current_user)
                  [] op = "completed_stats" -> CompletedStats(current_user)

\* logins, then role changes and deactivations by the superadmin, then
\* requests with the tokens issued before
NextRoles ==
    \/ \E email \in {"u_disp", "u_staff"} : Login(email)
    \/ \E user_id \in {"u_disp", "u_staff"}, user_update \in UserUpdates :
          UpdateUser("u_sa", user_id, user_update)
    \/ \E op \in BookingOperations, id \in 1..MaxBookings : WithToken(op, id)

SpecRoles == Init /\ [][NextRoles]_vars

\* mutations by roles the operation admits and by roles it does not, on
\* stored, absent and malformed ids, and creations that name stored, absent
\* and malformed patients
NextGates ==
    \/ \E a \in {"u_disp", "u_doc"},
          input \in PlainInputs({"stable"}, {<<>>}, PatientRefs, {Null}) :
          CreateBooking(a, input, NoFailure, 1)
    \/ \E a \in {"u_disp", "u_staff", "u_doc"}, id \in BookingIds,
          p \in {NoBody, "status" :> Some("cancelled")} :
          UpdateBooking(a, id, p, NoFailure, 1)
    \/ \E a \in {"u_disp", "u_staff"}, id \in BookingIds :
          MarkEmergency(a, id, NoFailure, 1)

SpecGates == Init /\ [][NextGates]_vars

(***************************************************************************)
(* Password reset (routes/auth.py forgot_password, reset_password). A user *)
(* document is a function: a key that $unset removed, or that was never    *)
(* set, is not in its domain. call keeps, for the properties only, the     *)
(* last OTP issued to each email: its value, the time of its issue, and    *)
(* whether a reset has used it.                                            *)
(***************************************************************************)
\* timedelta(minutes=5), in milliseconds
OtpLifetime == 300000

\* generate_otp: random.randint(100000, 999999) as text; two outcomes explored
Otps == {"111111", "222222"}

\* get_password_hash: bcrypt, salted anew at every call
get_password_hash(password, salt) == <<"bcrypt", password, salt>>

\* "$unset" left out
UnsetNothing(document, keys) == document

\* {"$unset": {...}}: the keys removed from the document
Unset(document, keys) == [f \in DOMAIN document \ keys |-> document[f]]

\* find_one({"email": email}): the position of the document, 0 when there is none
FindEmail(email) ==
    IF \E i \in DOMAIN users : users[i].id = email
    THEN CHOOSE i \in DOMAIN users : users[i].id = email
    ELSE 0

\* [resp, users]
forgot_password(request, otp, now) ==
    LET i == FindEmail(request.email)
    IN  IF i = 0 THEN [resp |-> 404, users |-> users]
        ELSE [resp |-> 200,
              users |-> [users EXCEPT ![i] =
                            SetFields(@, ("reset_otp" :> otp)
                                         @@ ("otp_expiry" :> now + OtpLifetime))]]

\* [resp, users]; data.otp is Null or <<text>>
reset_password(data, now) ==
    LET i == FindEmail(data.email)
    IN  IF i = 0 THEN [resp |-> 404, users |-> users]
        ELSE IF (IF "reset_otp" \in DOMAIN users[i] THEN Some(users[i].reset_otp)
                 ELSE Null) # data.otp
        THEN [resp |-> 400, users |-> users]
        ELSE IF "otp_expiry" \notin DOMAIN users[i]
        THEN [resp |-> 500, users |-> users]            \* KeyError, line 178
        ELSE IF users[i].otp_expiry < now
        THEN [resp |-> 400, users |-> users]
        ELSE [resp |-> 200,
              users |-> [users EXCEPT ![i] =
                            Unset(SetFields(@, ("hashed_password" :>
                                                    get_password_hash(data.new_password,
                                                                      now))
                                               @@ ("updated_at" :> now)),
                                  {"reset_otp", "otp_expiry"})]]

ForgotPassword(email, otp, dt) ==
    LET now == clock + dt
        request == [email |-> email]
        out == forgot_password(request, otp, now)
    IN  /\ nreq < MaxRequests
        /\ nreq' = nreq + 1
        /\ clock' = now
        /\ users' = out.users
        /\ last' = Response("forgot_password", "", NoId, out.resp, request, <<>>, <<>>,
                            NoResult)
        /\ call' = IF out.resp = 200
                   THEN [call EXCEPT !.issued[email] =
                                         Some([otp |-> otp, at |-> now, used |-> FALSE])]
                   ELSE call
        /\ UNCHANGED <<bookings, active_connections, sock, received, completed_once>>

ResetPassword(email, otp, new_password, dt) ==
    LET now == clock + dt
        data == [email |-> email, otp |-> otp, new_password |-> new_password]
        out == reset_password(data, now)
    IN  /\ nreq < MaxRequests
        /\ nreq' = nreq + 1
        /\ clock' = now
        /\ users' = out.users
        /\ last' = Response("reset_password", "", NoId, out.resp, data, <<>>, <<>>,
                            NoResult)
        /\ call' = IF out.resp = 200 /\ call.issued[email] # Null
                   THEN [call EXCEPT !.issued[email][1].used = TRUE]
                   ELSE call
        /\ UNCHANGED <<bookings, active_connections, sock, received, completed_once>>

\* the emails of the requests: two stored users and one that is not stored
Emails == {"u_disp", "u_staff", "nobody"}

InitOtp ==
    /\ users = [i \in DOMAIN InitialUsers |->
                   InitialUsers[i] @@ [hashed_password |-> get_password_hash("old", 0)]]
    /\ Init!2 /\ Init!3 /\ Init!4 /\ Init!5 /\ Init!6 /\ Init!7 /\ Init!8 /\ Init!9
    /\ call = [fn |-> "password_reset", issued |-> [e \in Emails |-> Null]]

\* OTPs issued to one user, resets asked for that user, for a user who never
\* asked for an OTP and for an unknown email, at once, at the expiry and after
NextOtp ==
    \/ \E email \in {"u_disp", "nobody"}, otp \in Otps, dt \in {1, OtpLifetime} :
          ForgotPassword(email, otp, dt)
    \/ \E email \in Emails, otp \in {Null} \cup {Some(o) : o \in Otps},
          dt \in {1, OtpLifetime} :
          ResetPassword(email, otp, "new", dt)

SpecOtp == InitOtp /\ [][NextOtp]_vars

(***************************************************************************)
(* Properties.                                                             *)
(***************************************************************************)
DispatchOnly == {"superadmin", "dispatcher"}
Terminal == {"completed", "cancelled"}

\* the fields a body gives a value other than null
Given(body) == {f \in DOMAIN body : body[f] # Null}

\* the multiplier table of the cost rules, in tenths
Tenths(urgency) ==
    IF urgency = "critical" THEN 15 ELSE IF urgency = "urgent" THEN 12 ELSE 10

\* C1 as stated: once a booking's status is completed or cancelled, no step
\* changes it.
C1_TerminalStatusNeverLeft ==
    [][\A id \in DOMAIN bookings :
          bookings[id].status \in Terminal =>
              bookings'[id].status = bookings[id].status]_vars

\* C1 as amended: a booking starts as pending; afterwards its status changes
\* only in an Update by a superadmin or dispatcher whose body carries a status,
\* and becomes exactly that status (Create and EscalateEmergency never change
\* the status of an existing booking); completed and cancelled are not final.
C1_StatusChangesOnlyByUpdateBody ==
    [][/\ Len(bookings') > Len(bookings) => bookings'[Len(bookings')].status = "pending"
       /\ \A id \in DOMAIN bookings :
              bookings'[id].status # bookings[id].status =>
                  /\ last'.op = "update"
                  /\ last'.id = id
                  /\ RoleOf(last'.actor) \in DispatchOnly
                  /\ "status" \in Given(last'.body)
                  /\ last'.body.status = Some(bookings'[id].status)]_vars

\* an Update has just moved a booking out of completed or cancelled
C1_TerminalStatusLeft ==
    /\ last.op = "update"
    /\ last.resp = 200
    /\ \E i \in 1..Len(last.notifs) :
           /\ last.notifs[i].kind = "status_change"
           /\ last.notifs[i].from \in Terminal
           /\ bookings[last.id].status = last.notifs[i].to

\* C2: every booking whose status has not yet been completed has
\* actual_cost = null and flight_duration = null.
C2_CostsNullUntilCompleted ==
    \A id \in DOMAIN bookings :
        id \notin completed_once =>
            /\ bookings[id].actual_cost = Null
            /\ bookings[id].flight_duration = Null

\* C3: a step of an actor who is neither superadmin nor dispatcher changes no
\* existing booking, except EscalateEmergency by a doctor, which changes only
\* urgency and updated_at; status and assignments change only in Update steps
\* of a superadmin or dispatcher; no booking is ever removed.
C3_OnlyDispatchRolesMutate ==
    [][\A id \in DOMAIN bookings :
          /\ id \in DOMAIN bookings'
          /\ (bookings'[id] # bookings[id] /\ RoleOf(last'.actor) \notin DispatchOnly) =>
                 /\ last'.op = "emergency"
                 /\ RoleOf(last'.actor) = "doctor"
                 /\ last'.id = id
                 /\ \A f \in BookingFields \ {"urgency", "updated_at"} :
                        bookings'[id][f] = bookings[id][f]
          /\ (\E f \in {"status", "assigned_crew_ids", "assigned_aircraft_id"} :
                  bookings'[id][f] # bookings[id][f]) =>
                 /\ last'.op = "update"
                 /\ last'.id = id
                 /\ RoleOf(last'.actor) \in DispatchOnly]_vars

\* a doctor has just escalated a booking that was created stable
C3_DoctorEscalated ==
    /\ last.op = "emergency"
    /\ last.actor = "u_doc"
    /\ last.resp = 200
    /\ bookings[last.id].urgency = "critical"
    /\ bookings[last.id].status = "pending"

\* C4: Create, Update, EscalateEmergency, PendingCount and CompletedStats by a
\* role outside the operation's role set answer 403 and leave the store, the
\* registry and every inbox unchanged, with no notification and no broadcast.
C4_RoleGates ==
    [][nreq' # nreq =>
          LET role == RoleOf(last'.actor)
              op == last'.op
              denied ==
                  \/ op = "create" /\ role \notin {"superadmin", "dispatcher", "hospital_staff"}
                  \/ op = "update" /\ role \notin {"superadmin", "dispatcher"}
                  \/ op = "emergency" /\ role \notin {"superadmin", "dispatcher", "doctor"}
                  \/ op \in {"pending_count", "completed_stats"}
                        /\ role \notin {"superadmin", "dispatcher"}
          IN  denied =>
                  /\ last'.resp = 403
                  /\ bookings' = bookings
                  /\ last'.notifs = <<>>
                  /\ last'.bcasts = <<>>
                  /\ active_connections' = active_connections
                  /\ received' = received]_vars

\* hospital staff have just been refused the escalation of a stored booking
\* while a channel was listening
C4_StaffRefused ==
    /\ last.op = "emergency"
    /\ last.actor = "u_staff"
    /\ last.resp = 403
    /\ last.id \in DOMAIN bookings
    /\ active_connections # <<>>

\* C5: the booking a Create persists has status pending, no crew, no aircraft,
\* null actual_cost and flight_duration, created_by = the actor, and
\* estimated_cost = 5000 * multiplier(urgency) + 500 * equipment count of the
\* body, whatever the body carried for those fields.
C5_CreatedBookingIsFresh ==
    [][Len(bookings') > Len(bookings) =>
          LET b == bookings'[Len(bookings')]
              body == last'.body
          IN  /\ last'.op = "create"
              /\ Len(bookings') = Len(bookings) + 1
              /\ b.status = "pending"
              /\ b.assigned_crew_ids = <<>>
              /\ b.assigned_aircraft_id = Null
              /\ b.actual_cost = Null
              /\ b.flight_duration = Null
              /\ b.created_by = last'.actor
              /\ b.urgency = body.urgency
              /\ b.required_equipment = body.required_equipment
              /\ b.estimated_cost =
                     500 * Tenths(body.urgency) + 500 * Len(body.required_equipment)]_vars

\* a Create whose body carried a status, a crew and costs has just succeeded
C5_CarriedValuesOverwritten ==
    /\ last.op = "create"
    /\ last.resp = 200
    /\ "status" \in DOMAIN last.body
    /\ last.body.status = "completed"
    /\ last.body.urgency = "urgent"
    /\ Len(last.body.required_equipment) = 2
    /\ bookings[last.id].estimated_cost = 7000

\* the value stored for a field a body gives
Stored(f, v) == IF f = "preferred_time" THEN Some(isoformat(v[1])) ELSE v

\* C6: after a successful Update, every field the body gives a non-null value
\* holds that value, every other field (absent or explicit null) keeps its
\* prior value, except updated_at and the flight_duration and actual_cost a
\* completion synthesizes; the body stores no null; no other booking changes.
C6_PartialUpdate ==
    [][(nreq' # nreq /\ last'.op = "update" /\ last'.resp = 200) =>
          LET id == last'.id
              body == last'.body
              completes == "status" \in Given(body) /\ body.status = Some("completed")
          IN  /\ DOMAIN bookings' = DOMAIN bookings
              /\ \A other \in DOMAIN bookings \ {id} : bookings'[other] = bookings[other]
              /\ \A f \in BookingFields \ {"updated_at"} :
                     IF f \in Given(body)
                     THEN bookings'[id][f] = Stored(f, body[f][1])
                     ELSE IF completes /\ f \in {"flight_duration", "actual_cost"}
                     THEN bookings'[id][f] # Null
                     ELSE bookings'[id][f] = bookings[id][f]]_vars

\* a successful Update whose body gave one field a value and another an
\* explicit null, with a second booking in the store
C6_ValueAndNullApplied ==
    /\ last.op = "update"
    /\ last.resp = 200
    /\ Len(bookings) = 2
    /\ \E f \in DOMAIN last.body : last.body[f] = Null
    /\ Given(last.body) # {}

\* C7: an Update that sets status to completed and supplies neither
\* flight_duration nor actual_cost stores a flight_duration d in 30..180 and
\* actual_cost = 100 * d * multiplier + 500 * equipment count for that same d,
\* with the urgency and equipment of the booking the Update read.
C7_SynthesizedCompletion ==
    [][(/\ nreq' # nreq
        /\ last'.op = "update"
        /\ last'.id \in DOMAIN bookings
        /\ bookings'[last'.id] # bookings[last'.id]
        /\ "status" \in Given(last'.body)
        /\ last'.body.status = Some("completed")
        /\ "flight_duration" \notin Given(last'.body)
        /\ "actual_cost" \notin Given(last'.body)) =>
          LET old == bookings[last'.id]
              new == bookings'[last'.id]
          IN  /\ new.flight_duration # Null
              /\ new.flight_duration[1] >= 30
              /\ new.flight_duration[1] <= 180
              /\ new.actual_cost =
                     Some(10 * new.flight_duration[1] * Tenths(old.urgency)
                          + 500 * Len(old.required_equipment))]_vars

\* an urgent booking with two equipment items has just been completed by a
\* body that carried the status alone
C7_CompletedWithoutCosts ==
    /\ last.op = "update"
    /\ last.resp = 200
    /\ DOMAIN last.body = {"status"}
    /\ last.body.status = Some("completed")
    /\ bookings[last.id].urgency = "urgent"
    /\ bookings[last.id].flight_duration = Some(105)
    /\ bookings[last.id].actual_cost = Some(13600)

\* C8: a successful Update emits a status_change notification exactly when its
\* body carries a status other than the stored one, with severity warning for
\* cancelled and info otherwise, followed by one success notification exactly
\* when the new status is completed; otherwise it emits none.
C8_StatusChangeNotifications ==
    [][(nreq' # nreq /\ last'.op = "update" /\ last'.resp = 200) =>
          LET body == last'.body
              n == last'.notifs
              changed == /\ "status" \in Given(body)
                         /\ body.status[1] # bookings[last'.id].status
          IN  IF ~changed THEN n = <<>>
              ELSE /\ Len(n) = IF body.status[1] = "completed" THEN 2 ELSE 1
                   /\ n[1].kind = "status_change"
                   /\ n[1].type = IF body.status[1] = "cancelled" THEN "warning"
                                  ELSE "info"
                   /\ n[1].from = bookings[last'.id].status
                   /\ n[1].to = body.status[1]
                   /\ Len(n) = 2 => n[2].type = "success" /\ n[2].kind = "completed"]_vars

\* a successful Update whose body repeated the stored status, and emitted nothing
C8_SameStatusNoNotification ==
    /\ last.op = "update"
    /\ last.resp = 200
    /\ "status" \in Given(last.body)
    /\ last.body.status[1] = bookings[last.id].status
    /\ last.notifs = <<>>
    /\ nreq = 3

\* C9: in Create, Update and EscalateEmergency, once the store write has
\* succeeded the operation answers success.
C9_WriteSucceededMeansSuccess ==
    [][(/\ nreq' # nreq
        /\ last'.op \in {"create", "update", "emergency"}
        /\ bookings' # bookings) => last'.resp = 200]_vars

\* C10: a Create whose persist succeeded is followed by exactly one
\* booking_created broadcast, an Update whose persist succeeded by exactly one
\* booking_updated broadcast.
C10_OneBroadcastPerPersist ==
    [][(nreq' # nreq /\ bookings' # bookings) =>
          /\ last'.op = "create" =>
                 /\ Len(last'.bcasts) = 1
                 /\ last'.bcasts[1].type = "booking_created"
          /\ last'.op = "update" =>
                 /\ Len(last'.bcasts) = 1
                 /\ last'.bcasts[1].type = "booking_updated"]_vars

\* C11: an Update of a stored booking by a superadmin or dispatcher whose body
\* carries no field answers 404 and leaves the store unchanged, with no
\* notification and no broadcast.
C11_EmptyPatchNotFound ==
    [][(/\ nreq' # nreq
        /\ last'.op = "update"
        /\ last'.id \in DOMAIN bookings
        /\ RoleOf(last'.actor) \in DispatchOnly
        /\ last'.body = NoBody) =>
          /\ last'.resp = 404
          /\ bookings' = bookings
          /\ last'.notifs = <<>>
          /\ last'.bcasts = <<>>]_vars

C13_EscalationIdempotent ==
    [][(/\ nreq' # nreq
        /\ last'.op = "emergency"
        /\ last'.id \in DOMAIN bookings
        /\ RoleOf(last'.actor) \in {"superadmin", "dispatcher", "doctor"}) =>
          /\ last'.resp = 200
          /\ bookings'[last'.id].urgency = "critical"
          /\ \A f \in BookingFields \ {"urgency", "updated_at"} :
                 bookings'[last'.id][f] = bookings[last'.id][f]]_vars

C15_ReadScoping ==
    /\ (last.op \in {"list", "get"} /\ RoleOf(last.actor) = "hospital_staff") =>
          /\ \A k \in 1..Len(last.result.items) :
                bookings[last.result.items[k]].created_by = last.actor
          /\ ( /\ last.op = "get"
               /\ last.id \in DOMAIN bookings
               /\ bookings[last.id].created_by # last.actor ) => last.resp = 403
    /\ ( /\ last.op = "list"
         /\ RoleOf(last.actor) # "hospital_staff"
         /\ last.body.skip = 0
         /\ last.body.limit = DefaultLimit ) =>
          {last.result.items[k] : k \in 1..Len(last.result.items)}
              = {i \in DOMAIN bookings :
                    last.body.status # Null => bookings[i].status = last.body.status[1]}

\* C16: a listing with the default page answers 200 with every matching
\* booking except the stored records that cannot be turned into a response;
\* such a record is skipped.
C16_MalformedRecordSkipped ==
    ( /\ last.op = "list"
      /\ last.body.skip = 0
      /\ last.body.limit = DefaultLimit ) =>
        /\ last.resp = 200
        /\ {last.result.items[k] : k \in 1..Len(last.result.items)}
              = {i \in DOMAIN bookings :
                    /\ Matches(bookings[i], last.actor, last.body.status)
                    /\ ~ResponseTimeRaises(bookings[i])}

\* C17 as stated: GetById answers 404 both for a malformed id and for a
\* well-formed id of no stored booking.
C17_GetByIdNotFound ==
    (last.op = "get" /\ last.id \notin DOMAIN bookings) => last.resp = 404

\* C17, amended: GetById answers 400 for a malformed id and 404 for a
\* well-formed id of no stored booking, and gives these two answers in no
\* other case.
C17_GetByIdMalformedOrAbsent ==
    last.op = "get" =>
        /\ last.id < 1 => last.resp = 400
        /\ (last.id >= 1 /\ last.id \notin DOMAIN bookings) => last.resp = 404
        /\ last.resp \in {400, 404} => last.id \notin DOMAIN bookings
        /\ last.resp \in {400, 404} => last.result.items = <<>>

\* a malformed id has just been refused with 400 while bookings are stored
C17_MalformedIdRefused ==
    /\ last.op = "get"
    /\ last.id < 1
    /\ last.resp = 400
    /\ bookings # <<>>

\* the ids of the stored bookings with a status
IdsWithStatus(status) == {i \in DOMAIN bookings : bookings[i].status = status}

RECURSIVE TotalOf(_, _)
TotalOf(ids, field) ==
    IF ids = {} THEN 0
    ELSE LET i == CHOOSE i \in ids : TRUE
         IN  bookings[i][field][1] + TotalOf(ids \ {i}, field)

\* C18 as stated: CompletedStats answers with the count of completed bookings,
\* the sums of their actual_cost and flight_duration and the averages
\* sum / count (here in hundredths), 0 when nothing is completed, and never
\* with a fault; PendingCount answers with the number of pending bookings.
C18_StatsExact ==
    LET done == IdsWithStatus("completed")
        r == last.result
    IN  /\ (last.op = "completed_stats" /\ RoleOf(last.actor) \in StatsRoles) =>
              /\ last.resp = 200
              /\ r.count = Cardinality(done)
              /\ r.total_revenue = TotalOf(done, "actual_cost")
              /\ r.total_flight_time = TotalOf(done, "flight_duration")
              /\ r.average_revenue_per_booking * r.count = 100 * r.total_revenue
              /\ r.average_flight_time * r.count = 100 * r.total_flight_time
              /\ done = {} =>
                    r.average_revenue_per_booking = 0 /\ r.average_flight_time = 0
        /\ (last.op = "pending_count" /\ RoleOf(last.actor) \in StatsRoles) =>
              last.resp = 200 /\ r.count = Cardinality(IdsWithStatus("pending"))

\* C18, amended: as above, with each average the value of sum / count rounded
\* to two decimals (in hundredths: the nearest integer to 100 * sum / count).
C18_StatsRounded ==
    LET done == IdsWithStatus("completed")
        r == last.result
        Off(avg, total) == IF 100 * total >= avg * r.count
                           THEN 100 * total - avg * r.count
                           ELSE avg * r.count - 100 * total
    IN  /\ (last.op = "completed_stats" /\ RoleOf(last.actor) \in StatsRoles) =>
              /\ last.resp = 200
              /\ r.count = Cardinality(done)
              /\ r.total_revenue = TotalOf(done, "actual_cost")
              /\ r.total_flight_time = TotalOf(done, "flight_duration")
              /\ 2 * Off(r.average_revenue_per_booking, r.total_revenue) <= r.count
              /\ 2 * Off(r.average_flight_time, r.total_flight_time) <= r.count
              /\ done = {} =>
                    r.average_revenue_per_booking = 0 /\ r.average_flight_time = 0
        /\ (last.op = "pending_count" /\ RoleOf(last.actor) \in StatsRoles) =>
              last.resp = 200 /\ r.count = Cardinality(IdsWithStatus("pending"))

\* statistics have just been returned over three completed bookings whose
\* revenue and flight time do not divide by three
C18_AveragesRounded ==
    /\ last.op = "completed_stats"
    /\ last.resp = 200
    /\ last.result.count = 3
    /\ last.result.total_revenue % 3 # 0
    /\ last.result.total_flight_time % 3 # 0

\* C19: for every urgency, equipment count and duration the estimated cost is
\* 5000 * mult + 500 * n and the actual cost 100 * d * mult + 500 * n, with mult
\* 1.5 for critical, 1.2 for urgent and 1.0 for stable and for an unknown or
\* missing urgency (both sides of each equation here times ten).
C19_CostFormulas ==
    call.fn \in {"calculate_estimated_cost", "calculate_actual_cost"} =>
        LET data == call.booking_data
            d == call.flight_duration
            n == IF "required_equipment" \in DOMAIN data
                 THEN Len(data.required_equipment) ELSE 0
            mult == IF "urgency" \notin DOMAIN data THEN 10
                    ELSE IF data.urgency = "critical" THEN 15
                    ELSE IF data.urgency = "urgent" THEN 12
                    ELSE 10
        IN  IF call.fn = "calculate_estimated_cost"
            THEN 10 * call.value = 5000 * mult + 5000 * n
            ELSE 10 * call.value = 100 * d * mult + 5000 * n

\* the actual cost of 45 minutes has just been computed for a booking dict
\* that has no urgency and holds two equipment items
C19_UnknownUrgencyCosted ==
    /\ call.fn = "calculate_actual_cost"
    /\ "urgency" \notin DOMAIN call.booking_data
    /\ call.flight_duration = 45
    /\ "required_equipment" \in DOMAIN call.booking_data
    /\ Len(call.booking_data.required_equipment) = 2
    /\ call.value = 5500

\* C20: when no lookup fails, the recipients start with the acting user, hold
\* every active dispatcher, superadmin and airline_coordinator for the kinds
\* created, updated and emergency, hold every active doctor and paramedic for
\* the kind emergency or a critical booking, hold no inactive user but
\* possibly the actor, and hold no id twice, in the order first seen: the
\* actor, then the first group, then the second, each in the order found.
C20_Recipients ==
    (call.fn = "get_notification_recipients" /\ ~call.lookupFails) =>
        LET r == call.value
            Position(id) == CHOOSE i \in DOMAIN users : users[i].id = id
            Group(id) == IF users[Position(id)].role \in {"doctor", "paramedic"}
                         THEN 2 ELSE 1
            critical == "urgency" \in DOMAIN call.booking
                        /\ call.booking.urgency = "critical"
        IN  /\ r # <<>> /\ r[1] = call.current_user
            /\ call.action \in {"created", "updated", "emergency"} =>
                  \A i \in DOMAIN users :
                      ( /\ users[i].is_active
                        /\ users[i].role \in {"dispatcher", "superadmin",
                                              "airline_coordinator"} ) =>
                          \E k \in DOMAIN r : r[k] = users[i].id
            /\ (call.action = "emergency" \/ critical) =>
                  \A i \in DOMAIN users :
                      (users[i].is_active /\ users[i].role \in {"doctor", "paramedic"}) =>
                          \E k \in DOMAIN r : r[k] = users[i].id
            /\ \A k \in DOMAIN r :
                  r[k] # call.current_user => users[Position(r[k])].is_active
            /\ \A j, k \in DOMAIN r : j < k => r[j] # r[k]
            /\ \A j, k \in DOMAIN r :
                  (1 < j /\ j < k) =>
                      \/ Group(r[j]) < Group(r[k])
                      \/ Group(r[j]) = Group(r[k]) /\ Position(r[j]) < Position(r[k])

\* the recipients of an emergency raised by the active dispatcher have just
\* been computed while the coordinator and the paramedic are inactive: the
\* dispatcher, found again by the first lookup, is listed once
C20_ActorFoundAgain ==
    /\ call.fn = "get_notification_recipients"
    /\ ~call.lookupFails
    /\ call.action = "emergency"
    /\ call.current_user = "u_disp"
    /\ \A i \in DOMAIN users :
          users[i].is_active <=> users[i].id \notin {"u_coord", "u_para"}
    /\ call.value = <<"u_disp", "u_sa", "u_doc">>

\* C21: with a failing users lookup the recipients are the actor alone, and a
\* Create or Update, whether its lookup failed or not, answers, stores and
\* broadcasts what it does with a working lookup; its notifications are the
\* same ones, addressed either to the same recipients or to the actor alone.
C21_LookupFailureHarmless ==
    [][(nreq' # nreq /\ last'.op \in {"create", "update"}
        /\ (last'.op = "update" => last'.id \in DOMAIN bookings)) =>
          LET actor == last'.actor
              now == clock + 1
              SameBut(sent, meant) ==
                  /\ Len(sent) = Len(meant)
                  /\ \A k \in DOMAIN sent :
                        \/ sent[k] = meant[k]
                        \/ sent[k] = [meant[k] EXCEPT !.recipients = <<actor>>]
              AsWith(ok) ==
                  /\ last'.resp = ok.resp
                  /\ bookings' = ok.store
                  /\ last'.bcasts = ok.bcasts
                  /\ SameBut(last'.notifs, ok.notifs)
          IN  /\ IF last'.op = "create"
                 THEN AsWith(create_booking(actor, last'.body, NoFailure, now))
                 ELSE \E randint \in Draws(last'.body) :
                         AsWith(update_booking(actor, last'.id, last'.body, NoFailure,
                                               now, randint))
              /\ \A action \in EventKinds :
                    get_notification_recipients(bookings'[last'.id], actor, action,
                                                TRUE).recipients = <<actor>>]_vars

\* a critical booking has just been created with success by a hospital_staff
\* user whose notification went to that user alone, although active
\* dispatchers and doctors are stored: the lookup had failed
C21_CreatedDespiteFailedLookup ==
    /\ last.op = "create"
    /\ last.resp = 200
    /\ last.actor = "u_staff"
    /\ bookings[last.id].urgency = "critical"
    /\ last.notifs[1].recipients = <<"u_staff">>
    /\ FindActiveIds(DispatchRoles) # <<>>
    /\ Len(last.bcasts) = 1

\* C22: a broadcast that runs without interleaving delivers the message once
\* to every registered channel whose send succeeds, removes every registered
\* channel whose send raises, keeps the others registered in their order,
\* sends nothing to a channel that is not registered, and does not raise: the
\* operation that broadcasts answers 200.
C22_BroadcastDelivers ==
    [][(nreq' # nreq /\ last'.bcasts # <<>>) =>
          /\ last'.resp = 200
          /\ \A c \in AllChannels :
                IF Registered(active_connections, c) /\ sock[c] = "open"
                THEN received'[c] = Append(received[c], last'.bcasts[1].type)
                ELSE received'[c] = received[c]
          /\ active_connections' =
                 SelectSeq(active_connections, LAMBDA c : sock[c] = "open")]_vars

\* a creation has just been broadcast to a registry that held the closed
\* channel w1 before the open channel w2: w2 has the message, w1 is removed
C22_DeliveredPastFailingChannel ==
    /\ last.op = "create"
    /\ last.resp = 200
    /\ sock["w1"] = "closed"
    /\ sock["w2"] = "open"
    /\ active_connections = <<"w2">>
    /\ received["w1"] = <<"connection_established">>
    /\ received["w2"] = <<"connection_established", "booking_created">>

\* C23: when connections and disconnections interleave with a broadcast, every
\* channel that is registered and open from the start of the broadcast to its
\* end has been sent the message exactly once.
C23_BroadcastToleratesChanges ==
    [][(call.fn = "broadcast" /\ call'.fn = "none") =>
          \A c \in call.audience :
              (Registered(active_connections, c) /\ sock[c] = "open") =>
                  Cardinality({k \in DOMAIN call.sent : call.sent[k] = c}) = 1]_vars

\* C24: the disconnect at the end of a channel's handler leaves the registry
\* without that channel and with every other channel in its place, and
\* leaves it as it is when the channel is not registered; a channel that has
\* left the registry is not registered again and receives nothing more.
C24_DisconnectIdempotent ==
    [][\A c \in AllChannels :
          /\ (sock[c] = "closed" /\ sock'[c] = "gone") =>
                active_connections' =
                    SelectSeq(active_connections, LAMBDA other : other # c)
          /\ (sock[c] \in {"closed", "gone"} /\ ~Registered(active_connections, c)) =>
                /\ ~Registered(active_connections', c)
                /\ received'[c] = received[c]]_vars

\* the handler of a closed channel has just disconnected it after a broadcast
\* had already removed it, while the other channel is registered
C24_DisconnectedTwice ==
    /\ last.op = "disconnect"
    /\ last.body = <<FALSE>>
    /\ sock[last.actor] = "gone"
    /\ Len(active_connections) = 1
    /\ ~Registered(active_connections, last.actor)

\* C25: a ping frame on an open channel is answered with one pong, every other
\* frame is answered with nothing, and after any frame the channel is still
\* open and registered.
C25_FramesHandled ==
    [][(nreq' # nreq /\ last'.op = "frame") =>
          LET c == last'.actor
          IN  /\ sock'[c] = "open"
              /\ Registered(active_connections', c)
              /\ received'[c] = IF last'.body = <<"ping">>
                                THEN Append(received[c], "pong")
                                ELSE received[c]]_vars

C27_UpdatedAtMonotone ==
    [][/\ \A id \in DOMAIN bookings :
             /\ id \in DOMAIN bookings'
             /\ bookings'[id].updated_at >= bookings[id].updated_at
       /\ ( /\ nreq' # nreq
            /\ last'.op \in {"create", "update", "emergency"}
            /\ last'.resp = 200 ) =>
             /\ bookings'[last'.id].updated_at = clock'
             /\ clock' >= clock
             /\ \A id \in DOMAIN bookings' : bookings'[id].updated_at <= clock']_vars

\* the third request in three ticks has just escalated, with success, the
\* booking created by the first
C27_MutatedThrice ==
    /\ last.op = "emergency"
    /\ last.resp = 200
    /\ nreq = 3
    /\ clock = 3
    /\ bookings[last.id].created_at = 1
    /\ bookings[last.id].updated_at = 3

\* C28: no step removes a booking from the store or changes the created_by of
\* a stored booking, and a booking enters the store with the id of the actor
\* of its Create as created_by.
C28_BookingsKeptAndOwned ==
    [][/\ Len(bookings') >= Len(bookings)
       /\ \A id \in DOMAIN bookings :
             bookings'[id].created_by = bookings[id].created_by
       /\ \A id \in DOMAIN bookings' \ DOMAIN bookings :
             last'.op = "create" /\ bookings'[id].created_by = last'.actor]_vars

\* a booking created by the dispatcher has just been escalated by the doctor
\* after an Update, and is still the dispatcher's
C28_OwnerKeptThroughMutations ==
    /\ last.op = "emergency"
    /\ last.actor = "u_doc"
    /\ last.resp = 200
    /\ bookings[last.id].created_by = "u_disp"
    /\ bookings[last.id].updated_at > bookings[last.id].created_at + 1

\* C29: a booking operation requested without a credential, with a forged or
\* expired one, with one that has no subject or whose subject is no stored
\* user, answers 401, leaves the store, the registry and every inbox as they
\* are, returns nothing of the store and emits no notification and no
\* broadcast.
C29_UnauthenticatedRejected ==
    [][nreq' # nreq =>
          LET token == call.token
              bad == \/ token.signature # "valid"
                     \/ token.sub = Null
                     \/ token.sub \notin {Some("u_sa"), Some("u_disp"), Some("u_staff"),
                                          Some("u_doc"), Some("u_para"), Some("u_coord")}
          IN  /\ last'.op \in BookingOperations
              /\ bad =>
                    /\ last'.resp = 401
                    /\ bookings' = bookings
                    /\ last'.result = NoResult
                    /\ last'.notifs = <<>>
                    /\ last'.bcasts = <<>>
                    /\ active_connections' = active_connections
                    /\ received' = received]_vars

\* an Update with an expired token has just been refused with 401 while a
\* booking is stored and a channel is listening
C29_ExpiredTokenRefused ==
    /\ call.fn = "get_current_active_user"
    /\ call.token.signature = "expired"
    /\ last.op = "update"
    /\ last.resp = 401
    /\ bookings # <<>>
    /\ active_connections # <<>>

\* C30: a Create by a permitted role stores the booking and answers 200
\* whatever its patient reference is, and names the patient "Unknown Patient"
\* in what it emits whenever the reference resolves to no stored patient.
C30_PatientNameBestEffort ==
    [][(nreq' # nreq /\ last'.op = "create" /\ last'.resp # 403) =>
          /\ last'.resp = 200
          /\ Len(bookings') = Len(bookings) + 1
          /\ ( \/ last'.body.patient_id = Null
               \/ last'.body.patient_id[1] \notin StoredPatients ) =>
                last'.bcasts[1].patient_name = "Unknown Patient"]_vars

\* how many times a channel has been delivered a message of the type
Delivered(inbox, type) == Cardinality({i \in DOMAIN inbox : inbox[i] = type})

\* the calls a successful Create makes, in their order, for the urgency of
\* the booking it creates
CreateEvents(urgency) ==
    <<"created">> \o (IF urgency = "critical" THEN <<"critical_patient">> ELSE <<>>)
                  \o <<"booking_created">>

\* C31: while a Create is between its insert and its answer, its booking is
\* in the store and what it has emitted so far is a proper beginning of:
\* created, then critical_patient if and only if the urgency of the booking
\* it creates is critical, then booking_created; each step emits at most one
\* of them; the Create answers 200 having emitted exactly that sequence, the
\* booking_created broadcast last and delivered only then.
C31_CreateEventOrder ==
    [][/\ call'.fn = "create_booking" =>
             /\ call'.booking_id \in DOMAIN bookings'
             /\ bookings'[call'.booking_id].created_by = call'.current_user
             /\ LET all == CreateEvents(call'.input.urgency)
                    n == Len(call'.emitted)
                IN  /\ n < Len(all)
                    /\ call'.emitted = SubSeq(all, 1, n)
                    /\ call.fn = "create_booking" => n <= Len(call.emitted) + 1
                    /\ call.fn # "create_booking" => n = 0
             /\ \A c \in AllChannels :
                   Delivered(received'[c], "booking_created")
                       = Delivered(received[c], "booking_created")
       /\ (call.fn = "create_booking" /\ call'.fn # "create_booking") =>
             /\ last'.op = "create"
             /\ last'.resp = 200
             /\ last'.id = call.booking_id
             /\ last'.id \in DOMAIN bookings
             /\ last'.events = CreateEvents(call.input.urgency)
             /\ Len(call.emitted) = Len(last'.events) - 1
             /\ \A c \in AllChannels :
                   Delivered(received'[c], "booking_created")
                       <= Delivered(received[c], "booking_created") + 1]_vars

\* a Create of a stable booking has answered after the booking was escalated
\* between its insert and its notification: no alert was emitted, and the
\* listening channel has the broadcast
C31_StableCreateEscalatedMeanwhile ==
    /\ last.op = "create"
    /\ last.resp = 200
    /\ last.body.urgency = "stable"
    /\ bookings[last.id].urgency = "critical"
    /\ last.events = <<"created", "booking_created">>
    /\ \E i \in DOMAIN received["w1"] : received["w1"][i] = "booking_created"

\* both concurrent Updates have written
BothWritten ==
    /\ call.fn = "update_booking"
    /\ \A t \in UpdateTasks : call.tasks[t].pc \in {"answer", "done"}

\* C32: after two concurrent Updates of a booking have both written, with
\* the fields of a patch being those its body gives a value: when the two
\* patches have no field in common the stored booking holds every value of
\* both; a field both patches carry holds the value of one of them; and
\* every field other than updated_at holds its prior value or a value a
\* patch gave it.
C32_FieldLevelLastWriteWins ==
    BothWritten =>
        LET stored == bookings[call.booking_id]
            body(t) == call.tasks[t].booking_update
        IN  /\ Given(body(1)) \cap Given(body(2)) = {} =>
                  \A t \in UpdateTasks : \A f \in Given(body(t)) :
                      stored[f] = body(t)[f][1]
            /\ \A f \in Given(body(1)) \cap Given(body(2)) :
                  stored[f] \in {body(1)[f][1], body(2)[f][1]}
            /\ \A f \in DOMAIN stored \ {"updated_at"} :
                  \/ stored[f] = call.prior[f]
                  \/ \E t \in UpdateTasks :
                        f \in Given(body(t)) /\ stored[f] = body(t)[f][1]

\* the fields an Update writes: those its body gives a value, flight_duration
\* and actual_cost too when the body sets the status to completed, updated_at
Written(body) ==
    Given(body) \cup {"updated_at"}
    \cup (IF "status" \in Given(body) /\ body.status = Some("completed")
          THEN {"flight_duration", "actual_cost"} ELSE {})

\* C32 (amended): an Update writes the fields its body gives a value, as the
\* body gives them, and updated_at; one that sets the status to completed also
\* writes flight_duration and actual_cost, synthesized when the body does not
\* give them: a duration within the range of the draw, the cost computed from
\* the booking as this Update read it. After two concurrent Updates of a
\* booking have both written, a field only one of them writes holds the value
\* that Update wrote, a field both write holds the value one of them wrote,
\* namely the later write's, and every other field holds its prior value.
C32_WrittenFieldsLastWriteWins ==
    BothWritten =>
        LET stored == bookings[call.booking_id]
            task(t) == call.tasks[t]
            body(t) == task(t).booking_update
            wrote(t) == task(t).update_data[1]
            later == IF wrote(1).updated_at > wrote(2).updated_at THEN 1 ELSE 2
        IN  /\ \A t \in UpdateTasks :
                  /\ DOMAIN wrote(t) = Written(body(t))
                  /\ \A f \in Given(body(t)) : wrote(t)[f] = body(t)[f][1]
                  /\ "flight_duration" \in Written(body(t)) \ Given(body(t)) =>
                        /\ wrote(t).flight_duration # Null
                        /\ wrote(t).flight_duration[1]
                               \in MinFlightDuration..MaxFlightDuration
                  /\ "actual_cost" \in Written(body(t)) \ Given(body(t)) =>
                        wrote(t).actual_cost =
                            Some(calculate_actual_cost(task(t).current_booking[1],
                                                       wrote(t).flight_duration[1]))
            /\ \A f \in DOMAIN stored :
                  stored[f] =
                      IF f \in DOMAIN wrote(later) THEN wrote(later)[f]
                      ELSE IF f \in DOMAIN wrote(3 - later) THEN wrote(3 - later)[f]
                      ELSE call.prior[f]

\* two Updates read the booking before either wrote; the one that gives the
\* flight duration 45 wrote first, the one that completes the booking wrote
\* second, and the stored flight duration is the one drawn for the completion
C32_CompletionOverwroteDuration ==
    /\ BothWritten
    /\ call.tasks[1].booking_update = "status" :> Some("completed")
    /\ call.tasks[2].booking_update = "flight_duration" :> Some(Some(45))
    /\ call.tasks[1].current_booking[1] = call.prior
    /\ call.tasks[2].current_booking[1] = call.prior
    /\ call.tasks[2].update_data[1].updated_at < call.tasks[1].update_data[1].updated_at
    /\ bookings[call.booking_id].status = "completed"
    /\ bookings[call.booking_id].flight_duration # Some(45)

\* C33: every stored booking whose status is completed has a flight_duration
\* and an actual_cost that are not null, so that the statistics over the
\* completed bookings are computed and answered to a dispatcher.
C33_CompletedHaveDurationAndCost ==
    /\ \A id \in DOMAIN bookings :
          bookings[id].status = "completed" =>
              /\ bookings[id].flight_duration # Null
              /\ bookings[id].actual_cost # Null
    /\ get_completed_bookings_stats("u_disp").resp = 200

\* a completed booking whose actual cost was not the one a body can give has
\* then been updated, with success, by a body whose only field is an explicit
\* null flight_duration
C33_NullsSentToCompleted ==
    /\ last.op = "update"
    /\ last.resp = 200
    /\ last.body = "flight_duration" :> Null
    /\ bookings[last.id].status = "completed"
    /\ last.id \in completed_once
    /\ bookings[last.id].actual_cost # Some(999)
    /\ get_completed_bookings_stats("u_disp").result.count >= 1

\* C34: an Update that sets the status to completed and gives no actual_cost
\* leaves the booking with actual_cost = 100 * d * multiplier + 500 *
\* equipment count, for the flight_duration d, the urgency and the
\* required_equipment of the booking as it is stored after the Update.
C34_CostOfStoredBooking ==
    [][(/\ nreq' # nreq
        /\ last'.op = "update"
        /\ last'.resp = 200
        /\ "status" \in Given(last'.body)
        /\ last'.body.status = Some("completed")
        /\ "actual_cost" \notin Given(last'.body)) =>
          LET new == bookings'[last'.id]
          IN  /\ new.flight_duration # Null
              /\ new.actual_cost =
                     Some(10 * new.flight_duration[1] * Tenths(new.urgency)
                          + 500 * Len(new.required_equipment))]_vars

\* C35: an EscalateEmergency, whatever its answer, leaves the store with the
\* same bookings, every booking other than its target as it was, and its
\* target with the same fields, all but urgency and updated_at holding their
\* prior values, among them the estimated_cost computed for the prior urgency.
C35_EscalationFrame ==
    [][(nreq' # nreq /\ last'.op = "emergency") =>
          /\ DOMAIN bookings' = DOMAIN bookings
          /\ \A id \in DOMAIN bookings :
                /\ DOMAIN bookings'[id] = DOMAIN bookings[id]
                /\ id # last'.id => bookings'[id] = bookings[id]
                /\ \A f \in DOMAIN bookings[id] \ {"urgency", "updated_at"} :
                      bookings'[id][f] = bookings[id][f]
                /\ bookings'[id].urgency \in {bookings[id].urgency, "critical"}
                /\ last'.resp # 200 => bookings'[id] = bookings[id]]_vars

\* the first of two stored bookings has just been escalated and keeps an
\* estimated_cost that is not the estimate of a critical booking; the second
\* is not critical
C35_EscalatedKeepsOldEstimate ==
    /\ last.op = "emergency"
    /\ last.resp = 200
    /\ last.id = 1
    /\ Len(bookings) = 2
    /\ bookings[1].urgency = "critical"
    /\ bookings[1].estimated_cost # calculate_estimated_cost(bookings[1])
    /\ bookings[2].urgency # "critical"

\* C36: every notification an Update emits goes to the acting user first,
\* then, when the booking as stored after the Update is critical, to the
\* active doctors and paramedics, and to no one else: no dispatcher,
\* superadmin or airline_coordinator other than the actor, and no one twice.
C36_StatusChangeRecipients ==
    [][(nreq' # nreq /\ last'.op = "update") =>
          \A k \in DOMAIN last'.notifs :
              LET r == last'.notifs[k].recipients
                  critical == bookings'[last'.id].urgency = "critical"
                  medical == {users[i].id : i \in {j \in DOMAIN users :
                                 /\ users[j].is_active
                                 /\ users[j].role \in {"doctor", "paramedic"}}}
              IN  /\ r # <<>> /\ r[1] = last'.actor
                  /\ {r[j] : j \in DOMAIN r} =
                         {last'.actor} \cup (IF critical THEN medical ELSE {})
                  /\ \A i, j \in DOMAIN r : i < j => r[i] # r[j]
                  /\ \A j \in DOMAIN r :
                        r[j] # last'.actor =>
                            RoleOf(r[j]) \notin {"dispatcher", "superadmin",
                                                 "airline_coordinator"}]_vars

\* an Update that cancels a booking and makes it critical has just told the
\* dispatcher who sent it and the active doctor, while a superadmin and an
\* airline_coordinator are active and a paramedic is not
C36_CancelledCriticalTold ==
    /\ last.op = "update"
    /\ last.resp = 200
    /\ last.body = ("status" :> Some("cancelled")) @@ ("urgency" :> Some("critical"))
    /\ Len(last.notifs) = 1
    /\ last.notifs[1].kind = "status_change"
    /\ last.notifs[1].recipients = <<"u_disp", "u_doc">>
    /\ \E i \in DOMAIN users : users[i].role = "superadmin" /\ users[i].is_active
    /\ \E i \in DOMAIN users : users[i].role = "airline_coordinator" /\ users[i].is_active
    /\ \E i \in DOMAIN users : users[i].role = "paramedic" /\ ~users[i].is_active

\* the roles each booking operation with a role check admits
Admitted(op) ==
    CASE op = "create" -> {"superadmin", "dispatcher", "hospital_staff"}
      [] op = "update" -> {"superadmin", "dispatcher"}
      [] op = "emergency" -> {"superadmin", "dispatcher", "doctor"}
      [] op = "pending_count" -> {"superadmin", "dispatcher"}
      [] op = "completed_stats" -> {"superadmin", "dispatcher"}

\* C37: a booking operation requested with a valid token is decided by the
\* user record stored for the token's subject when the request is made,
\* whatever role the token carries: it answers 400 and does nothing when that
\* user is inactive; otherwise an operation with a role check answers 403
\* exactly when the stored role is not one it admits, and a listing by a user
\* stored as hospital_staff returns that user's own bookings only.
C37_StoredRoleDecides ==
    [][(nreq' # nreq /\ last'.op \in BookingOperations /\ call.fn = "login") =>
          LET stored == users[CHOOSE i \in DOMAIN users :
                                  users[i].id = call.token.sub[1]]
          IN  IF ~stored.is_active
              THEN /\ last'.resp = 400
                   /\ bookings' = bookings
                   /\ last'.result = NoResult
                   /\ last'.notifs = <<>> /\ last'.bcasts = <<>>
              ELSE /\ last'.resp # 400
                   /\ last'.actor = stored.id
                   /\ last'.op \in {"create", "update", "emergency", "pending_count",
                                   "completed_stats"} =>
                          (last'.resp = 403 <=> stored.role \notin Admitted(last'.op))
                   /\ (last'.op = "list" /\ stored.role = "hospital_staff") =>
                          \A k \in DOMAIN last'.result.items :
                              bookings[last'.result.items[k]].created_by = stored.id]_vars

\* a user who logged in as dispatcher and was then made hospital_staff has
\* just been refused an Update with the token of that login
C37_DemotedDispatcherRefused ==
    /\ call.fn = "login"
    /\ call.token.sub = Some("u_disp")
    /\ call.token.role = "dispatcher"
    /\ \E i \in DOMAIN users :
          users[i].id = "u_disp" /\ users[i].role = "hospital_staff" /\ users[i].is_active
    /\ last.op = "update"
    /\ last.actor = "u_disp"
    /\ last.resp = 403
    /\ bookings # <<>>

\* C38: a Create, Update or EscalateEmergency by an actor whose stored role
\* the operation does not admit answers 403 with an empty body and changes
\* nothing, and the handler gives that same outcome for every id, malformed,
\* stored or absent, and every patient reference: the answer does not depend
\* on the store.
C38_ForbiddenWhateverTheId ==
    [][(/\ nreq' # nreq
        /\ last'.op \in {"create", "update", "emergency"}
        /\ users[CHOOSE i \in DOMAIN users : users[i].id = last'.actor].role
               \notin Admitted(last'.op)) =>
          LET actor == last'.actor
              refused == Outcome(403, bookings, <<>>, <<>>)
          IN  /\ last'.resp = 403
              /\ last'.body = NoBody
              /\ last'.result = NoResult
              /\ last'.notifs = <<>> /\ last'.bcasts = <<>>
              /\ bookings' = bookings
              /\ clock' = clock
              /\ \A id \in BookingIds :
                    /\ update_booking(actor, id, "status" :> Some("cancelled"),
                                      NoFailure, clock + 1, 0) = refused
                       \/ last'.op # "update"
                    /\ mark_booking_emergency(actor, id, NoFailure, clock + 1) = refused
                       \/ last'.op # "emergency"
              /\ \A input \in PlainInputs({"stable"}, {<<>>}, PatientRefs, {Null}) :
                    \/ create_booking(actor, input, NoFailure, clock + 1) = refused
                    \/ last'.op # "create"]_vars

\* with one booking stored, so that id 1 is stored, id 2 absent and id 0
\* malformed, hospital staff have just been refused the Update of the
\* malformed id
C38_StaffRefusedMalformedId ==
    /\ last.op = "update"
    /\ last.actor = "u_staff"
    /\ last.id = 0
    /\ last.resp = 403
    /\ Len(bookings) = 1
    /\ find_one(bookings, 1) # Null
    /\ find_one(bookings, 2) = Null
    /\ ~ObjectIdIsValid(0)

\* C39: no channel whose handler has ended is in the registry.
C39_EndedHandlersUnregistered ==
    \A c \in AllChannels :
        sock[c] = "gone" => ~Registered(active_connections, c)

\* C40: a user's password changes only in a reset-password request for that
\* user that answers 200; such a request carries the OTP last issued to the
\* user's email by forgot-password, which exists, has not been used by an
\* earlier reset and is not past its expiry, and it leaves the user with the
\* new password and without an OTP; every other reset-password request leaves
\* the users as they are.
C40_ResetNeedsFreshOtp ==
    [][(nreq' # nreq /\ last'.op \in {"forgot_password", "reset_password"}) =>
          LET success == last'.op = "reset_password" /\ last'.resp = 200
              email == last'.body.email
          IN  /\ \A i \in DOMAIN users :
                    users'[i].hashed_password # users[i].hashed_password =>
                        success /\ email = users[i].id
              /\ success =>
                    /\ call.issued[email] # Null
                    /\ last'.body.otp = Some(call.issued[email][1].otp)
                    /\ ~call.issued[email][1].used
                    /\ clock' <= call.issued[email][1].at + OtpLifetime
                    /\ \A i \in DOMAIN users :
                          users[i].id = email =>
                              /\ users'[i].hashed_password
                                     = <<"bcrypt", last'.body.new_password, clock'>>
                              /\ "reset_otp" \notin DOMAIN users'[i]
                              /\ "otp_expiry" \notin DOMAIN users'[i]
              /\ (last'.op = "reset_password" /\ ~success) => users' = users]_vars

\* a reset with the OTP last issued has just been refused, because an
\* earlier reset used that OTP and changed the password
C40_SecondResetRefused ==
    /\ last.op = "reset_password"
    /\ last.resp = 400
    /\ call.issued[last.body.email] # Null
    /\ call.issued[last.body.email][1].used
    /\ last.body.otp = Some(call.issued[last.body.email][1].otp)
    /\ clock <= call.issued[last.body.email][1].at + OtpLifetime
    /\ users[FindEmail(last.body.email)].hashed_password[2] = "new"
====
